---- MODULE Spec2Model ----
(***************************************************************************)
(* A model of the remotefs drivers (AwsS3Fs, FtpFs, SftpFs, ScpFs) and of  *)
(* the default methods of the RemoteFs trait.                              *)
(*                                                                         *)
(* Strings and paths are sequences of one-character strings, so that the   *)
(* string manipulations of the drivers (key formatting, prefix filtering,  *)
(* name extraction) are computed as the code computes them.                *)
(***************************************************************************)
EXTENDS Integers, Sequences, FiniteSets, TLC

\* ------------------------------------------------------------------------
\* Bounds of the model
\* ------------------------------------------------------------------------

\* Backend calls of one operation that may be made to fail: the call number
\* failAt (1..MaxFail) of the operation fails, 0 means that none fails.
MaxFail == 2

\* Recursion budget of the recursive walks (remove_dir_all) and of symbolic
\* link resolution on the remote host.
MaxDepth == 3

\* The number of calls made on a client in one behaviour.
MaxCalls == 3

\* The number of nested iter_search calls after which a descent that does not
\* end is cut off.
MaxSearch == 5

\* ------------------------------------------------------------------------
\* Local bindings
\* ------------------------------------------------------------------------

\* With(v, LAMBDA x : e) is e with x standing for the value of v, like a
\* `let x = v;` of the source: v is evaluated once, before e is.
With(v, F(_)) == CHOOSE r \in {F(x) : x \in {v}} : TRUE

\* ------------------------------------------------------------------------
\* Strings
\* ------------------------------------------------------------------------

SLASH == "/"

Empty == <<>>

ends_with(s, c) == Len(s) > 0 /\ s[Len(s)] = c

starts_with(s, p) == Len(p) <= Len(s) /\ SubSeq(s, 1, Len(p)) = p

\* The byte order of the characters used by the model (ASCII).
Ord(c) ==
    CASE c = "." -> 46
      [] c = "/" -> 47
      [] c = "d" -> 100
      [] c = "e" -> 101
      [] c = "f" -> 102
      [] c = "l" -> 108
      [] c = "x" -> 120
      [] OTHER -> 255

\* Byte-wise lexicographic order, the order in which S3 lists keys.
RECURSIVE StrLess(_, _)
StrLess(a, b) ==
    IF Len(b) = 0 THEN FALSE
    ELSE IF Len(a) = 0 THEN TRUE
    ELSE IF a[1] # b[1] THEN Ord(a[1]) < Ord(b[1])
    ELSE StrLess(Tail(a), Tail(b))

\* The elements of a finite set of strings in increasing order.
RECURSIVE SortStrings(_)
SortStrings(S) ==
    IF S = {} THEN <<>>
    ELSE With((CHOOSE x \in S : \A y \in S \ {x} : StrLess(x, y)), LAMBDA m :
         With(S \ {m}, LAMBDA others :
             <<m>> \o SortStrings(others)))

\* str::split('/'): the segments between slashes, empty ones included.
RECURSIVE split(_)
split(s) ==
    IF \A i \in 1..Len(s) : s[i] # SLASH THEN <<s>>
    ELSE With((CHOOSE k \in 1..Len(s) :
                   s[k] = SLASH /\ \A j \in 1..(k - 1) : s[j] # SLASH),
              LAMBDA i :
         With(SubSeq(s, i + 1, Len(s)), LAMBDA rest :
             <<SubSeq(s, 1, i - 1)>> \o split(rest)))

\* ------------------------------------------------------------------------
\* std::path::Path
\* ------------------------------------------------------------------------

RootDir == <<"/">>
CurDir == <<".">>
ParentDir == <<".", ".">>

is_absolute(p) == Len(p) > 0 /\ p[1] = SLASH

\* Path::components(): the root, then the non-empty segments; `.` segments
\* are dropped except a leading one of a relative path.
components(p) ==
    With(split(p), LAMBDA raw :
        LET segs == SelectSeq(raw, LAMBDA s : s # Empty /\ s # CurDir)
        IN  IF is_absolute(p) THEN <<RootDir>> \o segs
            ELSE IF raw[1] = CurDir THEN <<CurDir>> \o segs
            ELSE segs)

\* Path equality compares components: `/d/` equals `/d`.
PathEq(a, b) == components(a) = components(b)

\* PathBuf::push
push(base, p) ==
    IF is_absolute(p) THEN p
    ELSE IF Len(base) > 0 /\ ~ends_with(base, SLASH) THEN base \o <<SLASH>> \o p
    ELSE base \o p

\* Collecting components into a PathBuf pushes them one after the other.
RECURSIVE collect(_, _)
collect(buf, comps) ==
    IF comps = <<>> THEN buf
    ELSE With(push(buf, Head(comps)), LAMBDA pushed :
             collect(pushed, Tail(comps)))

None == [some |-> FALSE, v |-> Empty]
Some(x) == [some |-> TRUE, v |-> x]
unwrap_or_default(o) == IF o.some THEN o.v ELSE Empty

\* Path::parent(): None for the root and for the empty path.
parent(p) ==
    With(components(p), LAMBDA c :
        IF c = <<>> \/ c[Len(c)] = RootDir THEN None
        ELSE With(SubSeq(c, 1, Len(c) - 1), LAMBDA init :
                 Some(collect(Empty, init))))

\* Path::file_name(): the last component when it is a normal one.
file_name(p) ==
    With(components(p), LAMBDA c :
        IF c = <<>> \/ c[Len(c)] \in {RootDir, CurDir, ParentDir} THEN None
        ELSE Some(c[Len(c)]))

\* Lexical normalisation: `.` dropped, `..` removing the component before it
\* (the root has no parent; a relative path keeps its leading `..`).
RECURSIVE collapse(_, _)
collapse(stack, comps) ==
    IF comps = <<>> THEN stack
    ELSE With(Head(comps), LAMBDA h :
         With(Tail(comps), LAMBDA rest :
             IF h = CurDir THEN collapse(stack, rest)
             ELSE IF h = ParentDir
             THEN IF stack = <<>> \/ stack[Len(stack)] = ParentDir
                  THEN collapse(Append(stack, h), rest)
                  ELSE IF stack[Len(stack)] = RootDir THEN collapse(stack, rest)
                  ELSE With(SubSeq(stack, 1, Len(stack) - 1), LAMBDA up :
                           collapse(up, rest))
             ELSE With(Append(stack, h), LAMBDA down : collapse(down, rest))))

normalized(p) ==
    With(components(p), LAMBDA c :
    With(collapse(<<>>, c), LAMBDA kept :
        collect(Empty, kept)))

\* utils::path::absolutize
absolutize(wrkdir, target) ==
    IF is_absolute(target) THEN target ELSE push(wrkdir, target)

\* The loop of utils::path::diff_paths over the two component iterators.
RECURSIVE diff_loop(_, _, _)
diff_loop(ita, itb, comps) ==
    IF ita = <<>> /\ itb = <<>> THEN Some(comps)
    ELSE IF itb = <<>> THEN Some(comps \o ita)
    ELSE IF ita = <<>> THEN diff_loop(ita, Tail(itb), Append(comps, ParentDir))
    ELSE IF comps = <<>> /\ Head(ita) = Head(itb)
         THEN diff_loop(Tail(ita), Tail(itb), comps)
    ELSE IF Head(itb) = CurDir
         THEN diff_loop(Tail(ita), Tail(itb), Append(comps, Head(ita)))
    ELSE IF Head(itb) = ParentDir THEN None
    ELSE Some(comps \o [i \in 1..Len(itb) |-> ParentDir] \o ita)

\* utils::path::diff_paths
diff_paths(path, base) ==
    IF is_absolute(path) # is_absolute(base)
    THEN IF is_absolute(path) THEN Some(path) ELSE None
    ELSE With(components(path), LAMBDA ita :
         With(components(base), LAMBDA itb :
         With(diff_loop(ita, itb, <<>>), LAMBDA r :
             IF r.some THEN Some(collect(Empty, r.v)) ELSE None)))

ROOT == <<"/">>

\* ------------------------------------------------------------------------
\* AwsS3Fs: keys and paths
\* ------------------------------------------------------------------------

\* S3Object::object_name
object_name(key) ==
    With(split(key), LAMBDA tokens :
        LET count     == Len(tokens)
            demi_last == IF count > 1 THEN tokens[count - 1] ELSE Empty
            last      == tokens[count]
        IN  IF last # Empty THEN last ELSE demi_last)

\* A test by prefix alone.
is_direct_child_by_prefix(key, parent_) == starts_with(key, parent_)

\* AwsS3Fs::is_direct_child
is_direct_child(key, parent_) ==
    With(object_name(key), LAMBDA name :
        \/ key = parent_ \o name
        \/ key = parent_ \o name \o <<SLASH>>)

\* AwsS3Fs::fmt_path
fmt_path(p, is_dir) ==
    IF PathEq(p, ROOT) THEN Empty
    ELSE With((IF is_absolute(p)
               THEN unwrap_or_default(diff_paths(p, ROOT))
               ELSE p),
              LAMBDA q :
             IF is_dir /\ ~ends_with(q, SLASH) THEN q \o <<SLASH>> ELSE q)

\* AwsS3Fs::resolve
resolve(wrkdir, p) ==
    With(absolutize(wrkdir, p), LAMBDA a :
        unwrap_or_default(diff_paths(a, ROOT)))

\* ------------------------------------------------------------------------
\* Results, entries and the context an operation runs in
\* ------------------------------------------------------------------------

\* RemoteResult: kind is "Ok" or the RemoteErrorType of the error; the other
\* fields carry the value of an Ok result (a path, entries, a boolean).
Res(k) == [kind |-> k, path |-> Empty, entries |-> <<>>, flag |-> FALSE]
Ok == Res("Ok")
Err(k) == Res(k)
OkPath(p) == [Ok EXCEPT !.path = p]
OkEntries(es) == [Ok EXCEPT !.entries = es]
OkEntry(en) == [Ok EXCEPT !.entries = <<en>>]
OkBool(b) == [Ok EXCEPT !.flag = b]
is_ok(r) == r.kind = "Ok"
is_err(r) == r.kind # "Ok"

\* Entry (Directory / File) with the fields the drivers fill in; symlink is
\* the link target of Metadata::symlink.
Entry(name, path, is_dir, symlink) ==
    [name |-> name, path |-> path, is_dir |-> is_dir, symlink |-> symlink]

\* The context of an operation: the driver (kind, session, wrkdir), the
\* remote side (bucket for S3, tree for the POSIX hosts), the number of calls
\* made to the backend library so far and the call that is to fail.
Tick(c, cmd) == [c EXCEPT !.calls = @ + 1, !.log = Append(@, cmd)]
Failing(c) == c.calls = c.failAt
Out(c, r) == [c |-> c, r |-> r]

\* ------------------------------------------------------------------------
\* AwsS3Fs
\* ------------------------------------------------------------------------

\* impl From<&Object> for S3Object, then impl From<S3Object> for Entry
S3Object(key) ==
    With(absolutize(ROOT, key), LAMBDA path :
        Entry(object_name(key), absolutize(ROOT, path),
              ends_with(key, SLASH), None))

\* A translation that takes the empty objects for the directories.
object_entry_by_size(obj) ==
    With(S3Object(obj.key), LAMBDA e :
        [entry |-> [e EXCEPT !.is_dir = (obj.size = 0)], size |-> obj.size])

\* The Entry made of a listed Object (key, size): the kind of the entry comes
\* from the key, Metadata::size from the object.
object_entry(obj) ==
    With(S3Object(obj.key), LAMBDA e : [entry |-> e, size |-> obj.size])

\* Bucket::list(prefix): every key of the bucket that starts with prefix.
bucket_list(c, prefix) ==
    With({k \in c.bucket : starts_with(k, prefix)}, LAMBDA listed :
        SortStrings(listed))

\* A filter that keeps every object the service lists under the prefix.
list_object_keep_all(key, dir) == starts_with(key, dir)

\* AwsS3Fs::list_object_should_be_kept
list_object_should_be_kept(key, dir) == is_direct_child(key, dir)

\* AwsS3Fs::query_objects
query_objects(c, key, only_direct_children) ==
    With(Tick(c, "list"), LAMBDA c1 :
        IF Failing(c1) THEN Out(c1, Err("StatFailed"))
        ELSE With(bucket_list(c, key), LAMBDA results :
             LET kept(k) == IF only_direct_children
                            THEN list_object_should_be_kept(k, key)
                            ELSE TRUE
             IN  With(SelectSeq(results, kept), LAMBDA keys :
                     Out(c1, OkEntries([i \in 1..Len(keys) |->
                                            S3Object(keys[i])])))))

\* AwsS3Fs::list_objects
list_objects(c, p, list_dir) ==
    With(fmt_path(p, list_dir), LAMBDA key : query_objects(c, key, TRUE))

\* AwsS3Fs::stat_object
stat_object(c, p) ==
    With(fmt_path(p, FALSE), LAMBDA key :
    With(query_objects(c, key, FALSE), LAMBDA q :
        IF is_err(q.r) THEN q
        ELSE With(absolutize(ROOT, p), LAMBDA absol :
             With(SelectSeq(q.r.entries, LAMBDA x : PathEq(x.path, absol)),
                  LAMBDA found :
                 IF found # <<>> THEN Out(q.c, OkEntry(found[1]))
                 ELSE Out(q.c, Err("NoSuchFileOrDirectory"))))))

\* AwsS3Fs::check_connection
AwsS3Fs_is_connected(c) == c.session

AwsS3Fs_pwd_unguarded(c) == Out(c, OkPath(c.wrkdir))

\* AwsS3Fs::pwd
AwsS3Fs_pwd(c) ==
    IF ~AwsS3Fs_is_connected(c) THEN Out(c, Err("NotConnected"))
    ELSE Out(c, OkPath(c.wrkdir))

\* A change_dir without the shortcut for the root: the root is looked up in
\* the bucket like every other directory.
AwsS3Fs_change_dir_looked_up(c, dir) ==
    IF ~AwsS3Fs_is_connected(c) THEN Out(c, Err("NotConnected"))
    ELSE With(resolve(c.wrkdir, dir), LAMBDA dir_p :
         With(fmt_path(dir_p, TRUE), LAMBDA dir_s :
         With(stat_object(c, dir_s), LAMBDA st :
         With(absolutize(ROOT, dir_p), LAMBDA w :
             IF is_ok(st.r)
             THEN Out([st.c EXCEPT !.wrkdir = w], OkPath(w))
             ELSE Out(st.c, Err("NoSuchFileOrDirectory"))))))

\* AwsS3Fs::change_dir
AwsS3Fs_change_dir(c, dir) ==
    IF ~AwsS3Fs_is_connected(c) THEN Out(c, Err("NotConnected"))
    ELSE IF PathEq(dir, ROOT)
    THEN Out([c EXCEPT !.wrkdir = dir], OkPath(dir))
    ELSE With(resolve(c.wrkdir, dir), LAMBDA dir_p :
         With(fmt_path(dir_p, TRUE), LAMBDA dir_s :
         With(stat_object(c, dir_s), LAMBDA st :
         With(absolutize(ROOT, dir_p), LAMBDA w :
             IF is_ok(st.r)
             THEN Out([st.c EXCEPT !.wrkdir = w], OkPath(w))
             ELSE Out(st.c, Err("NoSuchFileOrDirectory"))))))

\* AwsS3Fs::list_dir
AwsS3Fs_list_dir(c, path) ==
    IF ~AwsS3Fs_is_connected(c) THEN Out(c, Err("NotConnected"))
    ELSE list_objects(c, path, TRUE)

\* AwsS3Fs::stat
AwsS3Fs_stat(c, path) ==
    IF ~AwsS3Fs_is_connected(c) THEN Out(c, Err("NotConnected"))
    ELSE With(resolve(c.wrkdir, path), LAMBDA p :
         With(stat_object(c, p), LAMBDA s1 :
             IF is_ok(s1.r) THEN s1
             ELSE With(fmt_path(p, TRUE), LAMBDA dir :
                      stat_object(s1.c, dir))))

\* The match of `exists` on the result of `stat`, the same in AwsS3Fs, FtpFs
\* and SftpFs.
exists_of_stat(stat_result) ==
    With(stat_result, LAMBDA st :
        IF is_ok(st.r) THEN Out(st.c, OkBool(TRUE))
        ELSE IF st.r.kind = "NoSuchFileOrDirectory"
             THEN Out(st.c, OkBool(FALSE))
        ELSE Out(st.c, Err(st.r.kind)))

\* AwsS3Fs::exists
AwsS3Fs_exists(c, path) == exists_of_stat(AwsS3Fs_stat(c, path))

\* Result::ok().unwrap_or(false) on the result of `exists`
ok_unwrap_or_false(r) == is_ok(r) /\ r.flag

\* Bucket::delete_object: deleting a key that does not exist succeeds.
delete_object(c, key, errkind) ==
    With(Tick(c, "delete_object"), LAMBDA c1 :
        IF Failing(c1) THEN Out(c1, Err(errkind))
        ELSE Out([c1 EXCEPT !.bucket = @ \ {key}], Ok))

\* Bucket::put_object
put_object(c, key, errkind) ==
    With(Tick(c, "put_object"), LAMBDA c1 :
        IF Failing(c1) THEN Out(c1, Err(errkind))
        ELSE Out([c1 EXCEPT !.bucket = @ \cup {key}], Ok))

\* AwsS3Fs::remove_file
AwsS3Fs_remove_file(c, path) ==
    IF ~AwsS3Fs_is_connected(c) THEN Out(c, Err("NotConnected"))
    ELSE With(resolve(c.wrkdir, path), LAMBDA p :
             delete_object(c, fmt_path(p, TRUE), "ProtocolError"))

\* AwsS3Fs::remove_dir
AwsS3Fs_remove_dir(c, path) ==
    IF ~AwsS3Fs_is_connected(c) THEN Out(c, Err("NotConnected"))
    ELSE With(AwsS3Fs_exists(c, path), LAMBDA ex :
             IF ~ok_unwrap_or_false(ex.r)
             THEN Out(ex.c, Err("NoSuchFileOrDirectory"))
             ELSE With(resolve(c.wrkdir, path), LAMBDA p :
                      delete_object(ex.c, fmt_path(p, TRUE), "ProtocolError")))

\* AwsS3Fs::remove_dir_all
AwsS3Fs_remove_dir_all(c, path) ==
    With(AwsS3Fs_remove_dir(c, path), LAMBDA rd :
        IF is_err(rd.r) THEN AwsS3Fs_remove_file(rd.c, path)
        ELSE Out(rd.c, Ok))

\* AwsS3Fs::create_dir
AwsS3Fs_create_dir(c, path) ==
    IF ~AwsS3Fs_is_connected(c) THEN Out(c, Err("NotConnected"))
    ELSE With(resolve(c.wrkdir, path), LAMBDA p :
         With(fmt_path(p, TRUE), LAMBDA dir :
         With(stat_object(c, dir), LAMBDA st :
             IF is_ok(st.r) THEN Out(st.c, Err("DirectoryAlreadyExists"))
             ELSE put_object(st.c, dir, "FileCreateDenied"))))

\* AwsS3Fs::setstat, symlink, copy, mov, exec, append, create, open
AwsS3Fs_unsupported(c) == Out(c, Err("UnsupportedFeature"))

\* ------------------------------------------------------------------------
\* The remote POSIX host behind FtpFs, SftpFs and ScpFs
\* ------------------------------------------------------------------------

\* The remote tree maps the canonical absolute path of every existing node
\* to its type ("dir", "file" or "link") and, for a link, its target.
DirNode == [type |-> "dir", target |-> Empty]
FileNode == [type |-> "file", target |-> Empty]
LinkNode(t) == [type |-> "link", target |-> t]

\* The normal segments of a path (root and `.` dropped).
segments(p) == SelectSeq(components(p), LAMBDA s : s # RootDir /\ s # CurDir)

\* The parent directory of a canonical path.
updir(q) == With(parent(q), LAMBDA up : IF up.some THEN up.v ELSE ROOT)

\* Path resolution on the host: walks segs from the existing directory cur,
\* following the links met on the way and, when follow is set, the link the
\* path ends in. Gives the canonical path of the node the path names, or the
\* path of a node that could be created there (last segment missing in an
\* existing directory), or None.
RECURSIVE walk(_, _, _, _, _)
walk(tree, cur, segs, follow, fuel) ==
    IF segs = <<>> THEN Some(cur)
    ELSE IF tree[cur].type # "dir" THEN None
    ELSE With(Head(segs), LAMBDA seg :
         With(Tail(segs), LAMBDA rest :
         With(push(cur, seg), LAMBDA nxt :
             IF seg = ParentDir
             THEN With(updir(cur), LAMBDA up :
                      walk(tree, up, rest, follow, fuel))
             ELSE IF nxt \notin DOMAIN tree
                  THEN IF rest = <<>> THEN Some(nxt) ELSE None
             ELSE IF tree[nxt].type = "link" /\ (rest # <<>> \/ follow)
                  THEN IF fuel = 0 THEN None
                       ELSE With(segments(tree[nxt].target) \o rest,
                                 LAMBDA linked :
                                walk(tree, ROOT, linked, follow, fuel - 1))
             ELSE walk(tree, nxt, rest, follow, fuel))))

\* The canonical path an absolute path resolves to (existing or creatable).
locate(tree, p, follow) ==
    With(segments(p), LAMBDA segs : walk(tree, ROOT, segs, follow, MaxDepth))

\* The existing node an absolute path names, if any.
lookup(tree, p, follow) ==
    With(locate(tree, p, follow), LAMBDA q :
        IF q.some /\ q.v \in DOMAIN tree THEN q ELSE None)

node_type(tree, p, follow) ==
    With(lookup(tree, p, follow), LAMBDA q :
        IF q.some THEN tree[q.v].type ELSE "none")

\* The canonical paths of the children of directory q, in name order.
children(tree, q) ==
    With({k \in DOMAIN tree : k # ROOT /\ updir(k) = q}, LAMBDA kids :
        SortStrings(kids))

\* The canonical paths of q and of everything below it.
subtree(tree, q) ==
    With(components(q), LAMBDA cq :
        {k \in DOMAIN tree :
            With(components(k), LAMBDA ck : starts_with(ck, cq))})

remove_nodes(tree, S) == [k \in (DOMAIN tree) \ S |-> tree[k]]

add_node(tree, q, n) == [k \in (DOMAIN tree) \cup {q} |-> IF k = q THEN n ELSE tree[k]]

\* mkdir(2): the parent exists and nothing is at the path.
host_can_mkdir(tree, p) ==
    With(locate(tree, p, FALSE), LAMBDA q :
        q.some /\ q.v \notin DOMAIN tree)

\* rmdir(2): an empty directory other than the root.
host_can_rmdir(tree, p) ==
    With(lookup(tree, p, FALSE), LAMBDA q :
        /\ q.some
        /\ q.v # ROOT
        /\ tree[q.v].type = "dir"
        /\ children(tree, q.v) = <<>>)

\* unlink(2): a file or a link.
host_can_unlink(tree, p) ==
    With(lookup(tree, p, FALSE), LAMBDA q :
        q.some /\ tree[q.v].type # "dir")

\* open(2) with O_CREAT: the path is, or can become, a regular file.
host_can_create(tree, p) ==
    With(locate(tree, p, TRUE), LAMBDA q :
        q.some /\ (q.v \in DOMAIN tree => tree[q.v].type = "file"))

host_mkdir(tree, p) ==
    With(locate(tree, p, FALSE), LAMBDA q : add_node(tree, q.v, DirNode))

host_rmdir(tree, p) ==
    With(lookup(tree, p, FALSE), LAMBDA q : remove_nodes(tree, {q.v}))

host_unlink(tree, p) ==
    With(lookup(tree, p, FALSE), LAMBDA q : remove_nodes(tree, {q.v}))

host_create(tree, p) ==
    With(locate(tree, p, TRUE), LAMBDA q : add_node(tree, q.v, FileNode))

host_symlink(tree, p, t) ==
    With(locate(tree, p, FALSE), LAMBDA q : add_node(tree, q.v, LinkNode(t)))

\* `rm -rf`: removes the node and everything below it, links not followed.
host_rm_rf(tree, p) ==
    With(lookup(tree, p, FALSE), LAMBDA q :
        IF q.some /\ q.v # ROOT
        THEN With(subtree(tree, q.v), LAMBDA S : remove_nodes(tree, S))
        ELSE tree)

\* rename(2) / `mv -f` / `cp -rf` of a node to a free path whose parent
\* exists: the subtree is re-rooted at the destination.
host_can_place(tree, src, dest) ==
    With(lookup(tree, src, FALSE), LAMBDA s :
    With(locate(tree, dest, FALSE), LAMBDA d :
        /\ s.some /\ s.v # ROOT
        /\ d.some /\ d.v \notin DOMAIN tree
        /\ With(components(d.v), LAMBDA cd :
           With(components(s.v), LAMBDA cs : ~starts_with(cd, cs)))))

reroot(k, s, d) ==
    With(components(k), LAMBDA ck :
    With(Len(components(s)), LAMBDA n :
    With(SubSeq(ck, n + 1, Len(ck)), LAMBDA below :
        collect(d, below))))

host_copy(tree, src, dest) ==
    With(lookup(tree, src, FALSE).v, LAMBDA s :
    With(locate(tree, dest, FALSE).v, LAMBDA d :
    With(subtree(tree, s), LAMBDA S :
    With([o \in S |-> reroot(o, s, d)], LAMBDA placed :
    With({placed[o] : o \in S}, LAMBDA N :
        [k \in (DOMAIN tree) \cup N |->
            IF k \in N THEN tree[CHOOSE o \in S : placed[o] = k]
            ELSE tree[k]])))))

host_rename(tree, src, dest) ==
    With(lookup(tree, src, FALSE).v, LAMBDA s :
    With(subtree(tree, s), LAMBDA S :
    With(host_copy(tree, src, dest), LAMBDA copied :
        remove_nodes(copied, S))))

\* One call to the backend library that either fails with errkind or
\* succeeds with result r, leaving the remote tree as newtree.
backend(c, cmd, can, newtree, errkind, r) ==
    With(Tick(c, cmd), LAMBDA c1 :
        IF Failing(c1) \/ ~can THEN Out(c1, Err(errkind))
        ELSE Out([c1 EXCEPT !.tree = newtree], r))

\* ------------------------------------------------------------------------
\* SftpFs
\* ------------------------------------------------------------------------

\* SftpFs::is_connected: the session exists and is authenticated.
SftpFs_is_connected(c) == c.session

\* SftpFs::make_fsentry on the attributes of node q reported for path; a
\* link costs one more round trip (readlink), whose failure gives no target.
make_fsentry(c, path, q, type) ==
    With(file_name(path), LAMBDA fname :
    With((IF type = "link" THEN Tick(c, "readlink") ELSE c), LAMBDA c1 :
        LET name == IF fname.some THEN fname.v ELSE ROOT
            sym  == IF type = "link" /\ ~Failing(c1)
                    THEN Some(c.tree[q].target)
                    ELSE None
        IN  [c |-> c1, en |-> Entry(name, path, type = "dir", sym)]))

\* SftpFs::pwd
SftpFs_pwd(c) ==
    IF ~SftpFs_is_connected(c) THEN Out(c, Err("NotConnected"))
    ELSE Out(c, OkPath(c.wrkdir))

\* SftpFs::stat (Sftp::stat follows links)
SftpFs_stat(c, path_) ==
    IF ~c.session THEN Out(c, Err("NotConnected"))
    ELSE With(absolutize(c.wrkdir, path_), LAMBDA path :
         With(Tick(c, "stat"), LAMBDA c1 :
         With(lookup(c.tree, path, TRUE), LAMBDA q :
             IF Failing(c1) \/ ~q.some
             THEN Out(c1, Err("NoSuchFileOrDirectory"))
             ELSE With(make_fsentry(c1, path, q.v, c.tree[q.v].type),
                       LAMBDA m : Out(m.c, OkEntry(m.en))))))

\* The entries SftpFs::list_dir makes of what Sftp::readdir returns: one per
\* child, with the joined path and the attributes of the child itself.
RECURSIVE sftp_entries(_, _, _, _)
sftp_entries(c, path, kids, acc) ==
    IF kids = <<>> THEN Out(c, OkEntries(acc))
    ELSE With(Head(kids), LAMBDA k :
         With(push(path, file_name(k).v), LAMBDA joined :
         With(make_fsentry(c, joined, k, c.tree[k].type), LAMBDA m :
         With(Append(acc, m.en), LAMBDA entries :
         With(Tail(kids), LAMBDA others :
             sftp_entries(m.c, path, others, entries))))))

\* SftpFs::list_dir
SftpFs_list_dir(c, path_) ==
    IF ~c.session THEN Out(c, Err("NotConnected"))
    ELSE With(absolutize(c.wrkdir, path_), LAMBDA path :
         With(Tick(c, "readdir"), LAMBDA c1 :
         With(lookup(c.tree, path, TRUE), LAMBDA q :
             IF Failing(c1) \/ ~q.some \/ c.tree[q.v].type # "dir"
             THEN Out(c1, Err("StatFailed"))
             ELSE With(children(c.tree, q.v), LAMBDA kids :
                      sftp_entries(c1, path, kids, <<>>)))))

\* A change_dir that stores the directory before it is known to exist.
SftpFs_change_dir_eager(c, dir_) ==
    IF ~SftpFs_is_connected(c) THEN Out(c, Err("NotConnected"))
    ELSE With(absolutize(c.wrkdir, dir_), LAMBDA dir :
         With(SftpFs_stat(c, dir), LAMBDA st :
             IF is_err(st.r) THEN Out([st.c EXCEPT !.wrkdir = dir], st.r)
             ELSE IF ~st.r.entries[1].is_dir THEN Out(st.c, Err("BadFile"))
             ELSE Out([st.c EXCEPT !.wrkdir = dir], OkPath(dir))))

\* SftpFs::change_dir
SftpFs_change_dir(c, dir_) ==
    IF ~SftpFs_is_connected(c) THEN Out(c, Err("NotConnected"))
    ELSE With(absolutize(c.wrkdir, dir_), LAMBDA dir :
         With(SftpFs_stat(c, dir), LAMBDA st :
             IF is_err(st.r) THEN st
             ELSE IF ~st.r.entries[1].is_dir THEN Out(st.c, Err("BadFile"))
             ELSE Out([st.c EXCEPT !.wrkdir = dir], OkPath(dir))))

\* SftpFs::setstat
SftpFs_setstat(c, path_) ==
    IF ~c.session THEN Out(c, Err("NotConnected"))
    ELSE With(absolutize(c.wrkdir, path_), LAMBDA path :
             backend(c, "setstat", lookup(c.tree, path, TRUE).some, c.tree,
                     "StatFailed", Ok))

\* SftpFs::exists
SftpFs_exists(c, path) == exists_of_stat(SftpFs_stat(c, path))

\* SftpFs::remove_file
SftpFs_remove_file(c, path_) ==
    IF ~c.session THEN Out(c, Err("NotConnected"))
    ELSE With(absolutize(c.wrkdir, path_), LAMBDA path :
             backend(c, "unlink", host_can_unlink(c.tree, path),
                     host_unlink(c.tree, path), "CouldNotRemoveFile", Ok))

\* SftpFs::remove_dir
SftpFs_remove_dir(c, path_) ==
    IF ~c.session THEN Out(c, Err("NotConnected"))
    ELSE With(absolutize(c.wrkdir, path_), LAMBDA path :
             backend(c, "rmdir", host_can_rmdir(c.tree, path),
                     host_rmdir(c.tree, path), "CouldNotRemoveFile", Ok))

\* A create_dir that sends mkdir without asking whether the path exists.
SftpFs_create_dir_unchecked(c, path_) ==
    IF ~SftpFs_is_connected(c) THEN Out(c, Err("NotConnected"))
    ELSE With(absolutize(c.wrkdir, path_), LAMBDA path :
             backend(c, "mkdir", host_can_mkdir(c.tree, path),
                     host_mkdir(c.tree, path), "FileCreateDenied", Ok))

\* SftpFs::create_dir
SftpFs_create_dir(c, path_) ==
    IF ~SftpFs_is_connected(c) THEN Out(c, Err("NotConnected"))
    ELSE With(absolutize(c.wrkdir, path_), LAMBDA path :
         With(SftpFs_exists(c, path), LAMBDA ex :
             IF is_err(ex.r) THEN ex
             ELSE IF ex.r.flag THEN Out(ex.c, Err("DirectoryAlreadyExists"))
             ELSE backend(ex.c, "mkdir", host_can_mkdir(c.tree, path),
                          host_mkdir(c.tree, path), "FileCreateDenied", Ok)))

\* SftpFs::symlink
SftpFs_symlink(c, path_, target) ==
    IF ~SftpFs_is_connected(c) THEN Out(c, Err("NotConnected"))
    ELSE With(absolutize(c.wrkdir, path_), LAMBDA path :
         With(SftpFs_exists(c, target), LAMBDA ex :
             IF is_err(ex.r) THEN ex
             ELSE IF ~ex.r.flag THEN Out(ex.c, Err("NoSuchFileOrDirectory"))
             ELSE backend(ex.c, "symlink", host_can_mkdir(c.tree, path),
                          host_symlink(c.tree, path, target),
                          "FileCreateDenied", Ok)))

\* SftpFs::copy (`cp -rf` through the shell)
SftpFs_copy(c, src_, dest_) ==
    IF ~SftpFs_is_connected(c) THEN Out(c, Err("NotConnected"))
    ELSE With(absolutize(c.wrkdir, src_), LAMBDA src :
         With(absolutize(c.wrkdir, dest_), LAMBDA dest :
         With(SftpFs_exists(c, src), LAMBDA ex :
             IF ~ok_unwrap_or_false(ex.r)
             THEN Out(ex.c, Err("NoSuchFileOrDirectory"))
             ELSE With(Tick(ex.c, "cp"), LAMBDA c1 :
                      IF Failing(c1) THEN Out(c1, Err("ProtocolError"))
                      ELSE IF ~host_can_place(c.tree, src, dest)
                           THEN Out(c1, Err("FileCreateDenied"))
                      ELSE Out([c1 EXCEPT !.tree = host_copy(c.tree, src, dest)],
                               Ok)))))

\* SftpFs::mov
SftpFs_mov(c, src_, dest_) ==
    IF ~SftpFs_is_connected(c) THEN Out(c, Err("NotConnected"))
    ELSE With(absolutize(c.wrkdir, src_), LAMBDA src :
         With(absolutize(c.wrkdir, dest_), LAMBDA dest :
         With(SftpFs_exists(c, src), LAMBDA ex :
             IF ~ok_unwrap_or_false(ex.r)
             THEN Out(ex.c, Err("NoSuchFileOrDirectory"))
             ELSE backend(ex.c, "rename", host_can_place(c.tree, src, dest),
                          host_rename(c.tree, src, dest), "FileCreateDenied",
                          Ok))))

\* SftpFs::exec; the commands run do not change the remote tree.
SftpFs_exec(c) ==
    IF ~SftpFs_is_connected(c) THEN Out(c, Err("NotConnected"))
    ELSE backend(c, "exec", TRUE, c.tree, "ProtocolError", Ok)

\* SftpFs::append
SftpFs_append(c, path_) ==
    IF ~c.session THEN Out(c, Err("NotConnected"))
    ELSE With(absolutize(c.wrkdir, path_), LAMBDA path :
             backend(c, "open", host_can_create(c.tree, path),
                     host_create(c.tree, path), "CouldNotOpenFile", Ok))

\* SftpFs::create
SftpFs_create(c, path_) ==
    IF ~c.session THEN Out(c, Err("NotConnected"))
    ELSE With(absolutize(c.wrkdir, path_), LAMBDA path :
             backend(c, "create", host_can_create(c.tree, path),
                     host_create(c.tree, path), "FileCreateDenied", Ok))

\* SftpFs::open
SftpFs_open(c, path_) ==
    IF ~SftpFs_is_connected(c) THEN Out(c, Err("NotConnected"))
    ELSE With(absolutize(c.wrkdir, path_), LAMBDA path :
         With(SftpFs_exists(c, path), LAMBDA ex :
             IF ~ok_unwrap_or_false(ex.r)
             THEN Out(ex.c, Err("NoSuchFileOrDirectory"))
             ELSE backend(ex.c, "open", node_type(c.tree, path, TRUE) = "file",
                          c.tree, "CouldNotOpenFile", Ok)))

\* ------------------------------------------------------------------------
\* ScpFs
\* ------------------------------------------------------------------------

\* The permission field of a line: nine characters.
Pex_rwxr_xr_x == <<"r", "w", "x", "r", "-", "x", "r", "-", "x">>

\* A line of `ls -l` output, by the fields the regular expression of
\* parse_ls_output captures: the type character, the permission field and
\* the name token (with the link target of a `name -> target` token); len is
\* the number of capture groups, the whole match included. Other lines
\* (`total N`) do not match.
LsLine(type, name, link) ==
    [matches |-> TRUE, type |-> type, name |-> name, link |-> link,
     pex |-> Pex_rwxr_xr_x, len |-> 9]
NoMatch ==
    [matches |-> FALSE, type |-> "", name |-> Empty, link |-> None,
     pex |-> Empty, len |-> 0]

TypeChar(t) == CASE t = "dir" -> "d" [] t = "link" -> "l" [] OTHER -> "-"

\* The line `ls` prints for node q under the name shown.
ls_line(tree, q, shown) ==
    LsLine(TypeChar(tree[q].type), shown,
           IF tree[q].type = "link" THEN Some(tree[q].target) ELSE None)

\* Character classes of LS_RE
Digits == {"0", "1", "2", "3", "4", "5"}
WordChars == Digits \cup {"d", "e", "f", "g", "i", "l", "o", "r", "t", "u", "x", "_"}
PexChars == {"-", "r", "w", "x", "s"}
SPACE == " "

\* \d+
IsDigits(tok) == Len(tok) >= 1 /\ \A i \in 1..Len(tok) : tok[i] \in Digits

\* \w{3}
IsMonth(tok) == Len(tok) = 3 /\ \A i \in 1..3 : tok[i] \in WordChars

\* \d{1,2}
IsDay(tok) == IsDigits(tok) /\ Len(tok) <= 2

\* \d{1,2}:\d{1,2}|\d{4}
IsTimeOrYear(tok) ==
    \/ IsDigits(tok) /\ Len(tok) = 4
    \/ \E k \in 2..(Len(tok) - 1) :
           /\ tok[k] = ":"
           /\ IsDay(SubSeq(tok, 1, k - 1))
           /\ IsDay(SubSeq(tok, k + 1, Len(tok)))

\* The tokens of a line put together again, one space between them.
RECURSIVE join(_)
join(toks) ==
    IF toks = <<>> THEN Empty
    ELSE IF Len(toks) = 1 THEN toks[1]
    ELSE With(Tail(toks), LAMBDA rest : toks[1] \o <<SPACE>> \o join(rest))

ARROW == <<"-", ">">>

\* ScpFs::get_name_and_link: the name token split at ` -> `.
get_name_and_link(toks) ==
    IF \E i \in 1..Len(toks) : toks[i] = ARROW
    THEN With((CHOOSE i \in 1..Len(toks) :
                   toks[i] = ARROW /\ \A j \in 1..(i - 1) : toks[j] # ARROW),
              LAMBDA i :
             With(SubSeq(toks, i + 1, Len(toks)), LAMBDA after :
                 LET stop == IF \E j \in 1..Len(after) : after[j] = ARROW
                             THEN (CHOOSE j \in 1..Len(after) :
                                       after[j] = ARROW
                                       /\ \A h \in 1..(j - 1) : after[h] # ARROW) - 1
                             ELSE Len(after)
                 IN  [name |-> join(SubSeq(toks, 1, i - 1)),
                      link |-> Some(join(SubSeq(after, 1, stop)))]))
    ELSE [name |-> join(toks), link |-> None]

\* LS_RE.captures(line), the line given by its whitespace-separated tokens:
\* ^([\-ld])([\-rwxs]{9})\s+(\d+)\s+(.+)\s+(.+)\s+(\d+)\s+
\*  (\w{3}\s+\d{1,2}\s+(?:\d{1,2}:\d{1,2}|\d{4}))\s+(.+)$
\* The first token is the type character and nine permission characters; the
\* size is the last token that is a number followed by a date and a name,
\* with at least the link count, a user and a group before it.
LS_RE_captures(line) ==
    IF Len(line) < 9 THEN NoMatch
    ELSE With(line[1], LAMBDA first :
         With({s \in 5..(Len(line) - 4) :
                   /\ IsDigits(line[s])
                   /\ IsMonth(line[s + 1])
                   /\ IsDay(line[s + 2])
                   /\ IsTimeOrYear(line[s + 3])}, LAMBDA sizes :
             IF \/ Len(first) # 10
                \/ first[1] \notin {"-", "l", "d"}
                \/ \E i \in 2..Len(first) : first[i] \notin PexChars
                \/ ~IsDigits(line[2])
                \/ sizes = {}
             THEN NoMatch
             ELSE With((CHOOSE s \in sizes : \A o \in sizes : o <= s), LAMBDA s :
                  With(SubSeq(line, s + 4, Len(line)), LAMBDA name_toks :
                  With((IF first[1] = "l" THEN get_name_and_link(name_toks)
                        ELSE [name |-> join(name_toks), link |-> None]),
                       LAMBDA nl :
                      [matches |-> TRUE, type |-> first[1], name |-> nl.name,
                       link |-> nl.link, pex |-> SubSeq(first, 2, 10),
                       len |-> 9])))))

\* A parser that takes everything that is no regular file for a directory.
parse_ls_output_links_as_dirs(path, line) ==
    IF ~line.matches THEN None
    ELSE IF line.type \notin {"-", "l", "d"} THEN None
    ELSE With(file_name(line.name), LAMBDA fname :
         With((IF fname.some THEN fname.v ELSE line.name), LAMBDA file_name_ :
             IF file_name_ = CurDir \/ file_name_ = ParentDir THEN None
             ELSE Some(Entry(file_name_, push(path, file_name_),
                             line.type # "-", line.link))))

\* ScpFs::parse_ls_output on the captures of a line: Some(entry) or None for
\* a parse failure.
parse_ls_output(path, line) ==
    IF ~line.matches THEN None
    ELSE IF line.len < 8 THEN None
    ELSE IF line.type \notin {"-", "l", "d"} THEN None
    ELSE IF Len(line.pex) < 9 THEN None
    ELSE With(file_name(line.name), LAMBDA fname :
         With((IF fname.some THEN fname.v ELSE line.name), LAMBDA file_name_ :
             LET is_dir  == line.type = "d"
                 symlink == IF line.type = "l" THEN line.link ELSE None
             IN  IF file_name_ = CurDir \/ file_name_ = ParentDir THEN None
                 ELSE Some(Entry(file_name_, push(path, file_name_), is_dir,
                                 symlink))))

\* ScpFs::is_connected
ScpFs_is_connected(c) == c.session

\* commons::perform_shell_cmd_with_rc of a command that succeeds when can
\* holds: the exit code 0 or 1, or an error of the channel.
shell_rc(c, cmd, can, newtree) ==
    With(Tick(c, cmd), LAMBDA c1 :
        IF Failing(c1) THEN [c |-> c1, ok |-> FALSE, rc |-> 0]
        ELSE IF can THEN [c |-> [c1 EXCEPT !.tree = newtree], ok |-> TRUE, rc |-> 0]
        ELSE [c |-> c1, ok |-> TRUE, rc |-> 1])

\* The match on the result of perform_shell_cmd_with_rc shared by the
\* operations of ScpFs: Ok on exit code 0, errkind on another exit code.
scp_rc_result(shell_result, errkind) ==
    With(shell_result, LAMBDA sh :
        IF ~sh.ok THEN Out(sh.c, Err("ProtocolError"))
        ELSE IF sh.rc = 0 THEN Out(sh.c, Ok)
        ELSE Out(sh.c, Err(errkind)))

\* ScpFs::is_directory (`test -d`)
ScpFs_is_directory(c, path_) ==
    With(absolutize(c.wrkdir, path_), LAMBDA path :
    With(shell_rc(c, "test -d", node_type(c.tree, path, TRUE) = "dir", c.tree),
         LAMBDA sh :
        IF ~sh.ok THEN Out(sh.c, Err("StatFailed"))
        ELSE Out(sh.c, OkBool(sh.rc = 0))))

\* ScpFs::pwd
ScpFs_pwd(c) ==
    IF ~ScpFs_is_connected(c) THEN Out(c, Err("NotConnected"))
    ELSE Out(c, OkPath(c.wrkdir))

\* The directory the shell reports after `cd`: the path with its redundant
\* separators and `.` segments removed.
RECURSIVE logical(_, _)
logical(stack, segs) ==
    IF segs = <<>> THEN stack
    ELSE With((IF Head(segs) = ParentDir
               THEN SubSeq(stack, 1, Len(stack) - 1)
               ELSE Append(stack, Head(segs))),
              LAMBDA pushed : logical(pushed, Tail(segs)))

shell_pwd(p) ==
    With(segments(p), LAMBDA segs :
    With(logical(<<>>, segs), LAMBDA stack : collect(ROOT, stack)))

\* A change_dir that takes the directory for current whatever `cd` says.
ScpFs_change_dir_blind(c, dir_) ==
    IF ~ScpFs_is_connected(c) THEN Out(c, Err("NotConnected"))
    ELSE With(absolutize(c.wrkdir, dir_), LAMBDA dir :
         With(Tick(c, "cd"), LAMBDA c1 :
             IF Failing(c1) THEN Out(c1, Err("ProtocolError"))
             ELSE With(shell_pwd(dir), LAMBDA output :
                      IF node_type(c.tree, dir, TRUE) = "dir"
                      THEN Out([c1 EXCEPT !.wrkdir = output], OkPath(output))
                      ELSE Out([c1 EXCEPT !.wrkdir = output],
                               Err("NoSuchFileOrDirectory")))))

\* ScpFs::change_dir (`cd "dir"; echo $?; pwd`)
ScpFs_change_dir(c, dir_) ==
    IF ~ScpFs_is_connected(c) THEN Out(c, Err("NotConnected"))
    ELSE With(absolutize(c.wrkdir, dir_), LAMBDA dir :
         With(Tick(c, "cd"), LAMBDA c1 :
             IF Failing(c1) THEN Out(c1, Err("ProtocolError"))
             ELSE With(shell_pwd(dir), LAMBDA output :
                      IF node_type(c.tree, dir, TRUE) = "dir"
                      THEN Out([c1 EXCEPT !.wrkdir = output], OkPath(output))
                      ELSE Out(c1, Err("NoSuchFileOrDirectory")))))

\* ScpFs::exists (`test -e`)
ScpFs_exists(c, path_) ==
    IF ~ScpFs_is_connected(c) THEN Out(c, Err("NotConnected"))
    ELSE With(absolutize(c.wrkdir, path_), LAMBDA path :
         With(shell_rc(c, "test -e", lookup(c.tree, path, TRUE).some, c.tree),
              LAMBDA sh :
             IF ~sh.ok THEN Out(sh.c, Err("StatFailed"))
             ELSE Out(sh.c, OkBool(sh.rc = 0))))

\* The lines of `ls -la "path/"`: the header, `.`, `..` and the children.
ls_la_lines(tree, path) ==
    With(lookup(tree, path, TRUE), LAMBDA q :
        IF ~q.some \/ tree[q.v].type # "dir" THEN <<>>
        ELSE With(children(tree, q.v), LAMBDA kids :
                 <<NoMatch, LsLine("d", CurDir, None),
                   LsLine("d", ParentDir, None)>>
                 \o [i \in 1..Len(kids) |->
                        ls_line(tree, kids[i], file_name(kids[i]).v)]))

\* A listing that gives up at the first line that does not parse.
RECURSIVE parsed_entries_until_failure(_, _)
parsed_entries_until_failure(path, lines) ==
    IF lines = <<>> THEN <<>>
    ELSE With(Head(lines), LAMBDA line :
         With(parse_ls_output(path, line), LAMBDA e :
         With(Tail(lines), LAMBDA others :
             IF e.some THEN <<e.v>> \o parsed_entries_until_failure(path, others)
             ELSE <<>>)))

\* The entries of the lines that parse, in output order.
RECURSIVE parsed_entries(_, _)
parsed_entries(path, lines) ==
    IF lines = <<>> THEN <<>>
    ELSE With(Head(lines), LAMBDA line :
         With(parse_ls_output(path, line), LAMBDA e :
         With(Tail(lines), LAMBDA others :
             (IF e.some THEN <<e.v>> ELSE <<>>) \o parsed_entries(path, others))))

\* ScpFs::list_dir
ScpFs_list_dir(c, path_) ==
    IF ~ScpFs_is_connected(c) THEN Out(c, Err("NotConnected"))
    ELSE With(absolutize(c.wrkdir, path_), LAMBDA path :
         With(ScpFs_exists(c, path), LAMBDA ex :
             IF ~ok_unwrap_or_false(ex.r)
             THEN Out(ex.c, Err("NoSuchFileOrDirectory"))
             ELSE With(Tick(ex.c, "ls"), LAMBDA c1 :
                      IF Failing(c1) THEN Out(c1, Err("ProtocolError"))
                      ELSE With(ls_la_lines(c.tree, path), LAMBDA lines :
                               Out(c1, OkEntries(parsed_entries(path, lines)))))))

\* The line of `ls -l "path"` or `ls -ld "path"` for a single path: the node
\* itself (a link is not followed) under the name given on the command line.
ls_l_line(tree, path) ==
    With(lookup(tree, path, FALSE), LAMBDA q :
        IF q.some THEN ls_line(tree, q.v, path) ELSE NoMatch)

\* ScpFs::stat
ScpFs_stat(c, path_) ==
    IF ~ScpFs_is_connected(c) THEN Out(c, Err("NotConnected"))
    ELSE With(absolutize(c.wrkdir, path_), LAMBDA path :
         With(ScpFs_is_directory(c, path), LAMBDA isd :
             IF is_err(isd.r) THEN isd
             ELSE With(Tick(isd.c, "ls"), LAMBDA c1 :
                  With(parent(path), LAMBDA dir :
                      IF Failing(c1) THEN Out(c1, Err("ProtocolError"))
                      ELSE IF ~dir.some THEN Out(c1, Err("StatFailed"))
                      ELSE With(ls_l_line(c.tree, path), LAMBDA line :
                           With(parse_ls_output(dir.v, line), LAMBDA e :
                               IF e.some THEN Out(c1, OkEntry(e.v))
                               ELSE Out(c1, Err("NoSuchFileOrDirectory"))))))))

\* A check of the sub-steps that takes every exit status for success.
RECURSIVE assert_stat_commands_unchecked(_, _, _)
assert_stat_commands_unchecked(c, cmds, refused) ==
    IF cmds = <<>> THEN Out(c, Ok)
    ELSE With(shell_rc(c, Head(cmds), Head(cmds) \notin refused, c.tree), LAMBDA sh :
             IF ~sh.ok THEN Out(sh.c, Err("ProtocolError"))
             ELSE With(Tail(cmds), LAMBDA others :
                      assert_stat_commands_unchecked(sh.c, others, refused)))

\* ScpFs::assert_stat_command for each command of cmds in turn, each ended
\* by `?`: the first that fails ends the sequence. The commands in `refused`
\* are those the remote shell ends with a non-zero exit status.
RECURSIVE assert_stat_commands(_, _, _)
assert_stat_commands(c, cmds, refused) ==
    IF cmds = <<>> THEN Out(c, Ok)
    ELSE With(scp_rc_result(shell_rc(c, Head(cmds), Head(cmds) \notin refused, c.tree),
                            "StatFailed"),
              LAMBDA r :
             IF is_err(r.r) THEN r
             ELSE With(Tail(cmds), LAMBDA others :
                      assert_stat_commands(r.c, others, refused)))

\* The owner argument of the chown command of ScpFs::setstat: the user,
\* followed by `:group` when the metadata has a gid; no chown without a uid.
chown_owner(has_uid, has_gid) ==
    IF has_uid THEN Some(IF has_gid THEN "user:group" ELSE "user") ELSE None

\* ScpFs::setstat: chmod when the metadata has a mode, chown when it has a
\* uid, then `touch -a` and `touch -m`.
ScpFs_setstat(c, path_, has_mode, has_uid, has_gid, refused) ==
    IF ~ScpFs_is_connected(c) THEN Out(c, Err("NotConnected"))
    ELSE With(absolutize(c.wrkdir, path_), LAMBDA path :
         With(ScpFs_exists(c, path), LAMBDA ex :
         With((IF has_mode THEN <<"chmod">> ELSE <<>>)
              \o (IF chown_owner(has_uid, has_gid).some THEN <<"chown">> ELSE <<>>)
              \o <<"touch -a", "touch -m">>,
              LAMBDA cmds :
             IF ~ok_unwrap_or_false(ex.r)
             THEN Out(ex.c, Err("NoSuchFileOrDirectory"))
             ELSE assert_stat_commands(ex.c, cmds, refused))))

\* An operation of ScpFs that checks `exists` (which must give `wanted`, or
\* the operation ends with errkind0) and then runs one shell command.
scp_checked_cmd(c, path, wanted, errkind0, cmd, can, newtree, errkind) ==
    With(ScpFs_exists(c, path), LAMBDA ex :
        IF ok_unwrap_or_false(ex.r) # wanted THEN Out(ex.c, Err(errkind0))
        ELSE scp_rc_result(shell_rc(ex.c, cmd, can, newtree), errkind))

\* ScpFs::remove_file (`rm -f`)
ScpFs_remove_file(c, path_) ==
    IF ~ScpFs_is_connected(c) THEN Out(c, Err("NotConnected"))
    ELSE With(absolutize(c.wrkdir, path_), LAMBDA path :
             scp_checked_cmd(c, path, TRUE, "NoSuchFileOrDirectory", "rm",
                             host_can_unlink(c.tree, path),
                             host_unlink(c.tree, path), "CouldNotRemoveFile"))

\* ScpFs::remove_dir (`rmdir`)
ScpFs_remove_dir(c, path_) ==
    IF ~ScpFs_is_connected(c) THEN Out(c, Err("NotConnected"))
    ELSE With(absolutize(c.wrkdir, path_), LAMBDA path :
             scp_checked_cmd(c, path, TRUE, "NoSuchFileOrDirectory", "rmdir",
                             host_can_rmdir(c.tree, path),
                             host_rmdir(c.tree, path), "DirectoryNotEmpty"))

\* ScpFs::remove_dir_all (`rm -rf`)
ScpFs_remove_dir_all(c, path_) ==
    IF ~ScpFs_is_connected(c) THEN Out(c, Err("NotConnected"))
    ELSE With(absolutize(c.wrkdir, path_), LAMBDA path :
             scp_checked_cmd(c, path, TRUE, "NoSuchFileOrDirectory", "rm -rf",
                             ~PathEq(path, ROOT),
                             host_rm_rf(c.tree, path), "CouldNotRemoveFile"))

\* ScpFs::create_dir (`mkdir -m`)
ScpFs_create_dir(c, path_) ==
    IF ~ScpFs_is_connected(c) THEN Out(c, Err("NotConnected"))
    ELSE With(absolutize(c.wrkdir, path_), LAMBDA path :
             scp_checked_cmd(c, path, FALSE, "DirectoryAlreadyExists", "mkdir",
                             host_can_mkdir(c.tree, path),
                             host_mkdir(c.tree, path), "FileCreateDenied"))

\* ScpFs::symlink (`ln -s`)
ScpFs_symlink(c, path_, target) ==
    IF ~ScpFs_is_connected(c) THEN Out(c, Err("NotConnected"))
    ELSE With(absolutize(c.wrkdir, path_), LAMBDA path :
         With(ScpFs_exists(c, target), LAMBDA ext :
             IF ~ok_unwrap_or_false(ext.r)
             THEN Out(ext.c, Err("NoSuchFileOrDirectory"))
             ELSE scp_checked_cmd(ext.c, path, FALSE, "FileCreateDenied", "ln",
                                  host_can_mkdir(c.tree, path),
                                  host_symlink(c.tree, path, target),
                                  "FileCreateDenied")))

\* ScpFs::copy (`cp -rf`)
ScpFs_copy(c, src_, dest_) ==
    IF ~ScpFs_is_connected(c) THEN Out(c, Err("NotConnected"))
    ELSE With(absolutize(c.wrkdir, src_), LAMBDA src :
         With(absolutize(c.wrkdir, dest_), LAMBDA dest :
             scp_checked_cmd(c, src, TRUE, "NoSuchFileOrDirectory", "cp",
                             host_can_place(c.tree, src, dest),
                             host_copy(c.tree, src, dest), "FileCreateDenied")))

\* ScpFs::mov (`mv -f`)
ScpFs_mov(c, src_, dest_) ==
    IF ~ScpFs_is_connected(c) THEN Out(c, Err("NotConnected"))
    ELSE With(absolutize(c.wrkdir, src_), LAMBDA src :
         With(absolutize(c.wrkdir, dest_), LAMBDA dest :
             scp_checked_cmd(c, src, TRUE, "NoSuchFileOrDirectory", "mv",
                             host_can_place(c.tree, src, dest),
                             host_rename(c.tree, src, dest), "FileCreateDenied")))

\* ScpFs::exec; the commands run do not change the remote tree.
ScpFs_exec(c) ==
    IF ~ScpFs_is_connected(c) THEN Out(c, Err("NotConnected"))
    ELSE backend(c, "exec", TRUE, c.tree, "ProtocolError", Ok)

\* ScpFs::append
ScpFs_append(c) == Out(c, Err("UnsupportedFeature"))

\* ScpFs::create (Session::scp_send)
ScpFs_create(c, path_) ==
    IF ~ScpFs_is_connected(c) THEN Out(c, Err("NotConnected"))
    ELSE With(absolutize(c.wrkdir, path_), LAMBDA path :
             backend(c, "scp_send", host_can_create(c.tree, path),
                     host_create(c.tree, path), "FileCreateDenied", Ok))

\* ScpFs::open (Session::scp_recv)
ScpFs_open(c, path_) ==
    IF ~ScpFs_is_connected(c) THEN Out(c, Err("NotConnected"))
    ELSE With(absolutize(c.wrkdir, path_), LAMBDA path :
         With(ScpFs_exists(c, path), LAMBDA ex :
             IF ~ok_unwrap_or_false(ex.r)
             THEN Out(ex.c, Err("NoSuchFileOrDirectory"))
             ELSE backend(ex.c, "scp_recv", node_type(c.tree, path, TRUE) = "file",
                          c.tree, "CouldNotOpenFile", Ok)))

\* ------------------------------------------------------------------------
\* FtpFs
\* ------------------------------------------------------------------------

\* FtpFs keeps no working directory of its own: the directory is the one of
\* the session on the server, held in c.wrkdir, against which the server
\* resolves the paths it is sent.

\* FtpFs::is_connected
FtpFs_is_connected(c) == c.session

\* A line of the LIST reply as suppaftp::list::File reads it.
FtpFile(tree, k) ==
    [name |-> file_name(k).v, is_directory |-> tree[k].type = "dir",
     symlink |-> IF tree[k].type = "link" THEN Some(tree[k].target) ELSE None]

\* The reply to LIST path: the children of a directory, the node itself for
\* another node, nothing for a path that names no node.
list_reply(tree, p) ==
    With(lookup(tree, p, TRUE), LAMBDA q :
        IF ~q.some THEN <<>>
        ELSE IF tree[q.v].type # "dir" THEN <<FtpFile(tree, q.v)>>
        ELSE With(children(tree, q.v), LAMBDA kids :
                 [i \in 1..Len(kids) |-> FtpFile(tree, kids[i])]))

\* FtpFs::parse_list_lines
parse_list_lines(path, lines) ==
    [i \in 1..Len(lines) |->
        Entry(lines[i].name, push(path, lines[i].name), lines[i].is_directory,
              IF lines[i].symlink.some
              THEN Some(absolutize(path, lines[i].symlink.v)) ELSE None)]

\* FtpFs::pwd
FtpFs_pwd(c) ==
    IF ~FtpFs_is_connected(c) THEN Out(c, Err("NotConnected"))
    ELSE backend(c, "pwd", TRUE, c.tree, "ProtocolError", OkPath(c.wrkdir))

\* FtpFs::change_dir
FtpFs_change_dir(c, dir) ==
    IF ~FtpFs_is_connected(c) THEN Out(c, Err("NotConnected"))
    ELSE With(Tick(c, "cwd"), LAMBDA c1 :
         With(absolutize(c.wrkdir, dir), LAMBDA p :
         With(lookup(c.tree, p, TRUE), LAMBDA q :
             IF Failing(c1) \/ ~q.some \/ c.tree[q.v].type # "dir"
             THEN Out(c1, Err("NoSuchFileOrDirectory"))
             ELSE Out([c1 EXCEPT !.wrkdir = q.v], OkPath(dir)))))

\* FtpFs::list_dir
FtpFs_list_dir(c, path) ==
    IF ~FtpFs_is_connected(c) THEN Out(c, Err("NotConnected"))
    ELSE backend(c, "list", TRUE, c.tree, "ProtocolError",
                 With(absolutize(c.wrkdir, path), LAMBDA p :
                 With(list_reply(c.tree, p), LAMBDA lines :
                     OkEntries(parse_list_lines(path, lines)))))

\* FtpFs::stat
FtpFs_stat(c, path_) ==
    IF ~FtpFs_is_connected(c) THEN Out(c, Err("NotConnected"))
    ELSE With(FtpFs_pwd(c), LAMBDA pw :
             IF is_err(pw.r) THEN pw
             ELSE With(absolutize(pw.r.path, path_), LAMBDA path :
                  With(parent(path), LAMBDA dir :
                      IF ~dir.some
                      THEN Out(pw.c, OkEntry(Entry(ROOT, ROOT, TRUE, None)))
                      ELSE With(FtpFs_list_dir(pw.c, dir.v), LAMBDA ls :
                               IF is_err(ls.r) THEN ls
                               ELSE With(SelectSeq(ls.r.entries,
                                             LAMBDA x : PathEq(x.path, path)),
                                         LAMBDA found :
                                        IF found = <<>>
                                        THEN Out(ls.c, Err("NoSuchFileOrDirectory"))
                                        ELSE Out(ls.c, OkEntry(found[1])))))))

\* A driver that does nothing for an operation it lacks and reports success.
FtpFs_unsupported_silent(c) == Out(c, Ok)

\* FtpFs::setstat, symlink, copy, exec
FtpFs_unsupported(c) == Out(c, Err("UnsupportedFeature"))

\* FtpFs::exists
FtpFs_exists(c, path) == exists_of_stat(FtpFs_stat(c, path))

\* FtpFs::remove_file (DELE)
FtpFs_remove_file(c, path) ==
    IF ~FtpFs_is_connected(c) THEN Out(c, Err("NotConnected"))
    ELSE With(absolutize(c.wrkdir, path), LAMBDA p :
             backend(c, "rm", host_can_unlink(c.tree, p), host_unlink(c.tree, p),
                     "ProtocolError", Ok))

\* FtpFs::remove_dir (RMD)
FtpFs_remove_dir(c, path) ==
    IF ~FtpFs_is_connected(c) THEN Out(c, Err("NotConnected"))
    ELSE With(absolutize(c.wrkdir, path), LAMBDA p :
             backend(c, "rmdir", host_can_rmdir(c.tree, p), host_rmdir(c.tree, p),
                     "ProtocolError", Ok))

\* FtpFs::create_dir (MKD): the reply 550 (FileUnavailable) of the server
\* is reported as DirectoryAlreadyExists, another failure as ProtocolError.
FtpFs_create_dir(c, path) ==
    IF ~FtpFs_is_connected(c) THEN Out(c, Err("NotConnected"))
    ELSE With(absolutize(c.wrkdir, path), LAMBDA p :
         With(Tick(c, "mkdir"), LAMBDA c1 :
             IF Failing(c1) THEN Out(c1, Err("ProtocolError"))
             ELSE IF ~host_can_mkdir(c.tree, p)
                  THEN Out(c1, Err("DirectoryAlreadyExists"))
             ELSE Out([c1 EXCEPT !.tree = host_mkdir(c.tree, p)], Ok)))

\* FtpFs::mov (RNFR, RNTO)
FtpFs_mov(c, src, dest) ==
    IF ~FtpFs_is_connected(c) THEN Out(c, Err("NotConnected"))
    ELSE With(absolutize(c.wrkdir, src), LAMBDA s :
         With(absolutize(c.wrkdir, dest), LAMBDA d :
             backend(c, "rename", host_can_place(c.tree, s, d),
                     host_rename(c.tree, s, d), "ProtocolError", Ok)))

\* FtpFs::create (STOR) and FtpFs::append (APPE)
FtpFs_create(c, path) ==
    IF ~FtpFs_is_connected(c) THEN Out(c, Err("NotConnected"))
    ELSE With(absolutize(c.wrkdir, path), LAMBDA p :
             backend(c, "put", host_can_create(c.tree, p), host_create(c.tree, p),
                     "ProtocolError", Ok))

FtpFs_append(c, path) ==
    IF ~FtpFs_is_connected(c) THEN Out(c, Err("NotConnected"))
    ELSE With(absolutize(c.wrkdir, path), LAMBDA p :
             backend(c, "append", host_can_create(c.tree, p),
                     host_create(c.tree, p), "ProtocolError", Ok))

\* FtpFs::open (RETR)
FtpFs_open(c, path) ==
    IF ~FtpFs_is_connected(c) THEN Out(c, Err("NotConnected"))
    ELSE With(absolutize(c.wrkdir, path), LAMBDA p :
             backend(c, "retr", node_type(c.tree, p, TRUE) = "file",
                     c.tree, "ProtocolError", Ok))

\* ------------------------------------------------------------------------
\* connect and disconnect
\* ------------------------------------------------------------------------

\* AwsS3Fs::connect: credentials, region and bucket handle are built
\* locally; nothing is sent to the service.
AwsS3Fs_connect(c, credentials_ok) ==
    IF ~credentials_ok THEN Out(c, Err("AuthenticationFailed"))
    ELSE Out([c EXCEPT !.session = TRUE], Ok)

\* A disconnect that reports success and keeps the bucket handle.
AwsS3Fs_disconnect_keeps_bucket(c) ==
    IF c.session THEN Out(c, Ok)
    ELSE Out(c, Err("NotConnected"))

\* AwsS3Fs::disconnect
AwsS3Fs_disconnect(c) ==
    IF c.session THEN Out([c EXCEPT !.session = FALSE], Ok)
    ELSE Out(c, Err("NotConnected"))

\* Calls made one after the other, each with the error kind its failure is
\* reported under; the first that fails ends the sequence.
RECURSIVE call_seq(_, _)
call_seq(c, cs) ==
    IF cs = <<>> THEN Out(c, Ok)
    ELSE With(Tick(c, Head(cs)[1]), LAMBDA c1 :
             IF Failing(c1) THEN Out(c1, Err(Head(cs)[2]))
             ELSE With(Tail(cs), LAMBDA others : call_seq(c1, others)))

\* FtpFs::connect: the new session starts in the login directory.
FtpFs_connect(c, home) ==
    With(call_seq(c, << <<"connect", "ConnectionError">>,
                        <<"login", "AuthenticationFailed">>,
                        <<"transfer_type", "ProtocolError">> >>),
         LAMBDA r :
        IF is_err(r.r) THEN r
        ELSE Out([r.c EXCEPT !.session = TRUE, !.wrkdir = home], Ok))

\* FtpFs::disconnect
FtpFs_disconnect(c) ==
    IF ~FtpFs_is_connected(c) THEN Out(c, Err("NotConnected"))
    ELSE With(call_seq(c, << <<"quit", "ConnectionError">> >>), LAMBDA r :
             IF is_err(r.r) THEN r
             ELSE Out([r.c EXCEPT !.session = FALSE], Ok))

\* commons::connect
commons_connect(c) ==
    call_seq(c, << <<"tcp_connect", "ConnectionError">>,
                   <<"handshake", "ProtocolError">>,
                   <<"userauth", "AuthenticationFailed">> >>)

\* SftpFs::connect
SftpFs_connect(c, home) ==
    With(commons_connect(c), LAMBDA s :
        IF is_err(s.r) THEN s
        ELSE With(call_seq(s.c, << <<"sftp", "ProtocolError">>,
                                   <<"realpath", "ProtocolError">> >>),
                  LAMBDA r :
                 IF is_err(r.r) THEN r
                 ELSE Out([r.c EXCEPT !.session = TRUE, !.wrkdir = home], Ok)))

\* ScpFs::connect
ScpFs_connect(c, home) ==
    With(commons_connect(c), LAMBDA s :
        IF is_err(s.r) THEN s
        ELSE With(call_seq(s.c, << <<"pwd", "ProtocolError">> >>), LAMBDA r :
                 IF is_err(r.r) THEN r
                 ELSE Out([r.c EXCEPT !.session = TRUE, !.wrkdir = home], Ok)))

\* SftpFs::disconnect and ScpFs::disconnect
Ssh_disconnect(c) ==
    IF ~c.session THEN Out(c, Err("NotConnected"))
    ELSE With(call_seq(c, << <<"disconnect", "ConnectionError">> >>), LAMBDA r :
             IF is_err(r.r) THEN r
             ELSE Out([r.c EXCEPT !.session = FALSE], Ok))

\* ------------------------------------------------------------------------
\* RemoteFs: the operations of the trait, by driver
\* ------------------------------------------------------------------------

is_connected(c) ==
    CASE c.kind = "S3"   -> AwsS3Fs_is_connected(c)
      [] c.kind = "FTP"  -> FtpFs_is_connected(c)
      [] c.kind = "SFTP" -> SftpFs_is_connected(c)
      [] c.kind = "SCP"  -> ScpFs_is_connected(c)

connect(c, home, credentials_ok) ==
    CASE c.kind = "S3"   -> AwsS3Fs_connect(c, credentials_ok)
      [] c.kind = "FTP"  -> FtpFs_connect(c, home)
      [] c.kind = "SFTP" -> SftpFs_connect(c, home)
      [] c.kind = "SCP"  -> ScpFs_connect(c, home)

disconnect(c) ==
    CASE c.kind = "S3"   -> AwsS3Fs_disconnect(c)
      [] c.kind = "FTP"  -> FtpFs_disconnect(c)
      [] c.kind = "SFTP" -> Ssh_disconnect(c)
      [] c.kind = "SCP"  -> Ssh_disconnect(c)

pwd(c) ==
    CASE c.kind = "S3"   -> AwsS3Fs_pwd(c)
      [] c.kind = "FTP"  -> FtpFs_pwd(c)
      [] c.kind = "SFTP" -> SftpFs_pwd(c)
      [] c.kind = "SCP"  -> ScpFs_pwd(c)

change_dir(c, dir) ==
    CASE c.kind = "S3"   -> AwsS3Fs_change_dir(c, dir)
      [] c.kind = "FTP"  -> FtpFs_change_dir(c, dir)
      [] c.kind = "SFTP" -> SftpFs_change_dir(c, dir)
      [] c.kind = "SCP"  -> ScpFs_change_dir(c, dir)

list_dir(c, path) ==
    CASE c.kind = "S3"   -> AwsS3Fs_list_dir(c, path)
      [] c.kind = "FTP"  -> FtpFs_list_dir(c, path)
      [] c.kind = "SFTP" -> SftpFs_list_dir(c, path)
      [] c.kind = "SCP"  -> ScpFs_list_dir(c, path)

stat(c, path) ==
    CASE c.kind = "S3"   -> AwsS3Fs_stat(c, path)
      [] c.kind = "FTP"  -> FtpFs_stat(c, path)
      [] c.kind = "SFTP" -> SftpFs_stat(c, path)
      [] c.kind = "SCP"  -> ScpFs_stat(c, path)

setstat(c, path, has_mode, has_uid, has_gid, refused) ==
    CASE c.kind = "S3"   -> AwsS3Fs_unsupported(c)
      [] c.kind = "FTP"  -> FtpFs_unsupported(c)
      [] c.kind = "SFTP" -> SftpFs_setstat(c, path)
      [] c.kind = "SCP"  -> ScpFs_setstat(c, path, has_mode, has_uid, has_gid, refused)

exists(c, path) ==
    CASE c.kind = "S3"   -> AwsS3Fs_exists(c, path)
      [] c.kind = "FTP"  -> FtpFs_exists(c, path)
      [] c.kind = "SFTP" -> SftpFs_exists(c, path)
      [] c.kind = "SCP"  -> ScpFs_exists(c, path)

remove_file(c, path) ==
    CASE c.kind = "S3"   -> AwsS3Fs_remove_file(c, path)
      [] c.kind = "FTP"  -> FtpFs_remove_file(c, path)
      [] c.kind = "SFTP" -> SftpFs_remove_file(c, path)
      [] c.kind = "SCP"  -> ScpFs_remove_file(c, path)

remove_dir(c, path) ==
    CASE c.kind = "S3"   -> AwsS3Fs_remove_dir(c, path)
      [] c.kind = "FTP"  -> FtpFs_remove_dir(c, path)
      [] c.kind = "SFTP" -> SftpFs_remove_dir(c, path)
      [] c.kind = "SCP"  -> ScpFs_remove_dir(c, path)

create_dir(c, path) ==
    CASE c.kind = "S3"   -> AwsS3Fs_create_dir(c, path)
      [] c.kind = "FTP"  -> FtpFs_create_dir(c, path)
      [] c.kind = "SFTP" -> SftpFs_create_dir(c, path)
      [] c.kind = "SCP"  -> ScpFs_create_dir(c, path)

symlink(c, path, target) ==
    CASE c.kind = "S3"   -> AwsS3Fs_unsupported(c)
      [] c.kind = "FTP"  -> FtpFs_unsupported(c)
      [] c.kind = "SFTP" -> SftpFs_symlink(c, path, target)
      [] c.kind = "SCP"  -> ScpFs_symlink(c, path, target)

copy(c, src, dest) ==
    CASE c.kind = "S3"   -> AwsS3Fs_unsupported(c)
      [] c.kind = "FTP"  -> FtpFs_unsupported(c)
      [] c.kind = "SFTP" -> SftpFs_copy(c, src, dest)
      [] c.kind = "SCP"  -> ScpFs_copy(c, src, dest)

mov(c, src, dest) ==
    CASE c.kind = "S3"   -> AwsS3Fs_unsupported(c)
      [] c.kind = "FTP"  -> FtpFs_mov(c, src, dest)
      [] c.kind = "SFTP" -> SftpFs_mov(c, src, dest)
      [] c.kind = "SCP"  -> ScpFs_mov(c, src, dest)

exec(c) ==
    CASE c.kind = "S3"   -> AwsS3Fs_unsupported(c)
      [] c.kind = "FTP"  -> FtpFs_unsupported(c)
      [] c.kind = "SFTP" -> SftpFs_exec(c)
      [] c.kind = "SCP"  -> ScpFs_exec(c)

append(c, path) ==
    CASE c.kind = "S3"   -> AwsS3Fs_unsupported(c)
      [] c.kind = "FTP"  -> FtpFs_append(c, path)
      [] c.kind = "SFTP" -> SftpFs_append(c, path)
      [] c.kind = "SCP"  -> ScpFs_append(c)

create(c, path) ==
    CASE c.kind = "S3"   -> AwsS3Fs_unsupported(c)
      [] c.kind = "FTP"  -> FtpFs_create(c, path)
      [] c.kind = "SFTP" -> SftpFs_create(c, path)
      [] c.kind = "SCP"  -> ScpFs_create(c, path)

open(c, path) ==
    CASE c.kind = "S3"   -> AwsS3Fs_unsupported(c)
      [] c.kind = "FTP"  -> FtpFs_open(c, path)
      [] c.kind = "SFTP" -> SftpFs_open(c, path)
      [] c.kind = "SCP"  -> ScpFs_open(c, path)

\* A step of a default method that is no call to the backend library.
Note(c, step) == [c EXCEPT !.log = Append(@, step)]

\* FtpFs::on_written (finalize_put_stream)
FtpFs_on_written(c) ==
    IF ~FtpFs_is_connected(c) THEN Out(c, Err("NotConnected"))
    ELSE backend(c, "finalize_put_stream", TRUE, c.tree, "ProtocolError", Ok)

\* FtpFs::on_read (finalize_retr_stream)
FtpFs_on_read(c) ==
    IF ~FtpFs_is_connected(c) THEN Out(c, Err("NotConnected"))
    ELSE backend(c, "finalize_retr_stream", TRUE, c.tree, "ProtocolError", Ok)

\* RemoteFs::on_written: Ok by default
on_written(c) ==
    With(Note(c, "on_written"), LAMBDA c1 :
        IF c.kind = "FTP" THEN FtpFs_on_written(c1) ELSE Out(c1, Ok))

\* RemoteFs::on_read: Ok by default
on_read(c) ==
    With(Note(c, "on_read"), LAMBDA c1 :
        IF c.kind = "FTP" THEN FtpFs_on_read(c1) ELSE Out(c1, Ok))

\* The result of a blocking helper: the context, the result and, on
\* success, the number of bytes copied.
Copied(o, sz) == [c |-> o.c, r |-> o.r, sz |-> sz]

\* io::copy(reader, writer) of len bytes over the stream: an I/O error of the
\* stream becomes a ProtocolError.
io_copy(c, len) ==
    With(Tick(c, "io::copy"), LAMBDA c1 :
        IF Failing(c1) THEN Copied(Out(c1, Err("ProtocolError")), 0)
        ELSE Copied(Out(c1, Ok), len))

\* A helper that returns after the copy and leaves the stream as it is.
copy_without_finalize(c, len, writing) == io_copy(c, len)

\* The part the three blocking helpers share once the stream is open:
\* `let sz = io::copy(..)?; self.on_written(stream)?; Ok(sz)`.
copy_and_finalize(c, len, writing) ==
    With(io_copy(c, len), LAMBDA cp :
        IF is_err(cp.r) THEN cp
        ELSE With((IF writing THEN on_written(cp.c) ELSE on_read(cp.c)),
                  LAMBDA fin :
                 IF is_err(fin.r) THEN Copied(fin, 0) ELSE Copied(fin, cp.sz)))

\* RemoteFs::append_file (default)
RemoteFs_append_file(c, path, len) ==
    IF ~is_connected(c) THEN Copied(Out(c, Err("NotConnected")), 0)
    ELSE With(append(c, path), LAMBDA stream :
             IF is_err(stream.r) THEN Copied(stream, 0)
             ELSE copy_and_finalize(stream.c, len, TRUE))

\* RemoteFs::create_file (default)
RemoteFs_create_file(c, path, len) ==
    IF ~is_connected(c) THEN Copied(Out(c, Err("NotConnected")), 0)
    ELSE With(create(c, path), LAMBDA stream :
             IF is_err(stream.r) THEN Copied(stream, 0)
             ELSE copy_and_finalize(stream.c, len, TRUE))

\* RemoteFs::open_file (default)
RemoteFs_open_file(c, src, len) ==
    IF ~is_connected(c) THEN Copied(Out(c, Err("NotConnected")), 0)
    ELSE With(open(c, src), LAMBDA stream :
             IF is_err(stream.r) THEN Copied(stream, 0)
             ELSE copy_and_finalize(stream.c, len, FALSE))

\* RemoteFs::remove_dir_all, the default implementation: the loop over the
\* entries of a directory ends at the first entry whose removal fails.
RECURSIVE RemoteFs_remove_dir_all(_, _, _)
RECURSIVE remove_entries(_, _, _)
remove_entries(c, entries, depth) ==
    IF entries = <<>> THEN Out(c, Ok)
    ELSE With(RemoteFs_remove_dir_all(c, Head(entries).path, depth), LAMBDA r :
             IF is_err(r.r) THEN r
             ELSE With(Tail(entries), LAMBDA others :
                      remove_entries(r.c, others, depth)))

\* depth is the depth of the recursion, which the model follows down to
\* MaxSearch.
RemoteFs_remove_dir_all(c, path_, depth) ==
    IF depth > MaxSearch THEN Out(c, Err("StackOverflow"))
    ELSE IF ~is_connected(c) THEN Out(c, Err("NotConnected"))
    ELSE With(pwd(c), LAMBDA pw :
             IF is_err(pw.r) THEN pw
             ELSE With(absolutize(pw.r.path, path_), LAMBDA path :
                  With(stat(pw.c, path), LAMBDA st :
                      IF is_err(st.r) THEN st
                      ELSE With(st.r.entries[1], LAMBDA entry :
                               IF ~entry.is_dir
                               THEN remove_file(st.c, entry.path)
                               ELSE With(list_dir(st.c, entry.path), LAMBDA ls :
                                        IF is_err(ls.r) THEN ls
                                        ELSE With(remove_entries(ls.c, ls.r.entries,
                                                                 depth + 1),
                                                  LAMBDA rm :
                                                 IF is_err(rm.r) THEN rm
                                                 ELSE remove_dir(rm.c, entry.path)))))))

remove_dir_all(c, path) ==
    CASE c.kind = "S3"   -> AwsS3Fs_remove_dir_all(c, path)
      [] c.kind = "FTP"  -> RemoteFs_remove_dir_all(c, path, 1)
      [] c.kind = "SFTP" -> RemoteFs_remove_dir_all(c, path, 1)
      [] c.kind = "SCP"  -> ScpFs_remove_dir_all(c, path)

\* WildMatch::matches: `?` stands for one character, `*` for any number.
RECURSIVE wild_matches(_, _)
wild_matches(pattern, s) ==
    IF pattern = <<>> THEN s = <<>>
    ELSE With(Tail(pattern), LAMBDA rest :
             IF pattern[1] = "*"
             THEN \/ wild_matches(rest, s)
                  \/ s # <<>> /\ With(Tail(s), LAMBDA t : wild_matches(pattern, t))
             ELSE /\ s # <<>>
                  /\ pattern[1] = "?" \/ pattern[1] = s[1]
                  /\ With(Tail(s), LAMBDA t : wild_matches(rest, t)))

\* RemoteFs::iter_search; iter_entries is its loop over the listed entries.
\* A descent deeper than MaxSearch stands for one that never returns.
RECURSIVE iter_search(_, _, _, _), iter_entries(_, _, _, _, _)
iter_search(c, dir, filter, depth) ==
    IF depth > MaxSearch THEN Out(c, Err("StackOverflow"))
    ELSE With(list_dir(c, dir), LAMBDA ls :
             IF is_err(ls.r) THEN ls
             ELSE iter_entries(ls.c, ls.r.entries, filter, <<>>, depth))

iter_entries(c, entries, filter, drained, depth) ==
    IF entries = <<>> THEN Out(c, OkEntries(drained))
    ELSE With(Head(entries), LAMBDA entry :
         With(Tail(entries), LAMBDA others :
         With((IF wild_matches(filter, entry.name) THEN Append(drained, entry)
               ELSE drained), LAMBDA pushed :
             IF entry.is_dir
             THEN With(iter_search(c, entry.path, filter, depth + 1), LAMBDA sub :
                      IF is_err(sub.r) THEN sub
                      ELSE With(pushed \o sub.r.entries, LAMBDA appended :
                               iter_entries(sub.c, others, filter, appended, depth)))
             ELSE iter_entries(c, others, filter, pushed, depth))))

\* RemoteFs::find
find(c, search) ==
    IF ~is_connected(c) THEN Out(c, Err("NotConnected"))
    ELSE With(pwd(c), LAMBDA pw :
             IF is_err(pw.r) THEN pw
             ELSE iter_search(pw.c, pw.r.path, search, 1))

\* ------------------------------------------------------------------------
\* The client and the remote side as a state machine
\* ------------------------------------------------------------------------

VARIABLES
    kind,           \* the driver: "S3", "FTP", "SFTP" or "SCP"
    session,        \* the driver holds a bucket handle / stream / session
    wrkdir,         \* the working directory (for FTP: of the server session)
    bucket,         \* the keys of the objects in the S3 bucket
    tree,           \* the nodes of the remote POSIX host
    everConnected,  \* a connect has succeeded since construction
    last,           \* the last call: operation, arguments, result, backend calls
    pre,            \* the client and the remote side as the last call found them
    ncalls          \* the number of calls made on the client

vars == <<kind, session, wrkdir, bucket, tree, everConnected, last, pre, ncalls>>

Kinds == {"S3", "FTP", "SFTP", "SCP"}

P_d   == <<"/", "d">>
P_de  == <<"/", "d", "/", "e">>
P_df  == <<"/", "d", "/", "f">>
P_def == <<"/", "d", "/", "e", "/", "f">>
P_x   == <<"/", "x">>
P_l   == <<"/", "l">>
R_e   == <<"e">>
P_xe  == <<"/", "x", "/", "e">>

\* The paths the caller passes: absolute and relative, existing or not.
Paths == {ROOT, P_d, P_df, P_x, R_e}

\* The paths stat, exists and remove_dir_all are called with: the link too.
PathsAndLinks == Paths \cup {P_l}

\* The paths of the calls that transfer a file or set its attributes.
Files == {P_df, P_x, R_e}
Attrs == {P_df, P_x}

\* The sources and the destination of copy and mov; the path and the
\* targets of symlink.
Sources == {P_df, P_de, P_x}
Dests == {P_x}
Targets == {P_d, P_x}

\* A link inside /d/e to /d/e itself: a link to an ancestor.
P_dea == <<"/", "d", "/", "e", "/", "a">>
LinkPaths == Dests \cup {P_dea}
LinkTargets == Targets \cup {P_de}

\* The paths create_dir is called with: one below a missing directory too.
NewDirs == Paths \cup {P_xe}

\* The login directory of the remote account.
Homes == {P_d}

\* The bucket holds markers of directories and objects nested below them,
\* or an object without the marker of its directory.
K_d   == <<"d", "/">>
K_de  == <<"d", "/", "e", "/">>
K_def == <<"d", "/", "e", "/", "f">>
K_df  == <<"d", "/", "f">>
K_f   == <<"f">>
InitBuckets == {{K_d, K_de, K_def, K_df, K_f}, {K_df}}

\* The remote tree holds nested directories and files and a link to a
\* directory.
InitTree ==
    [k \in {ROOT, P_d, P_de, P_def, P_df, P_l} |->
        IF k \in {P_def, P_df} THEN FileNode
        ELSE IF k = P_l THEN LinkNode(P_d)
        ELSE DirNode]

EmptyTree == [k \in {ROOT} |-> DirNode]

NoCall == [op |-> "new", path |-> Empty, arg |-> Empty, res |-> Ok,
           log |-> <<>>, failAt |-> 0]

Snapshot == [session |-> session, wrkdir |-> wrkdir, bucket |-> bucket,
             tree |-> tree]

\* The state after AwsS3Fs::new, FtpFs::new, SftpFs::new, ScpFs::new.
Init ==
    /\ kind \in Kinds
    /\ session = FALSE
    /\ wrkdir = ROOT
    /\ bucket \in (IF kind = "S3" THEN InitBuckets ELSE {{}})
    /\ tree = (IF kind = "S3" THEN EmptyTree ELSE InitTree)
    /\ everConnected = FALSE
    /\ last = NoCall
    /\ pre = Snapshot
    /\ ncalls = 0

\* The number of the backend call that fails; 0 for none.
Fails == 0..MaxFail

Ctx(f) ==
    [kind |-> kind, session |-> session, wrkdir |-> wrkdir, bucket |-> bucket,
     tree |-> tree, calls |-> 0, log |-> <<>>, failAt |-> f]

\* A call of the operation op whose outcome is o.
Call(op, path, arg, o) ==
    /\ ncalls' = ncalls + 1
    /\ session' = o.c.session
    /\ wrkdir' = o.c.wrkdir
    /\ bucket' = o.c.bucket
    /\ tree' = o.c.tree
    /\ last' = [op |-> op, path |-> path, arg |-> arg, res |-> o.r,
                log |-> o.c.log,
                failAt |-> IF o.c.failAt \in 1..o.c.calls THEN o.c.failAt ELSE 0]
    /\ pre' = Snapshot
    /\ UNCHANGED kind

Connect ==
    /\ ncalls < MaxCalls
    /\ \E f \in Fails, home \in Homes, credentials_ok \in BOOLEAN :
           \E o \in {connect(c, home, credentials_ok) : c \in {Ctx(f)}} :
               /\ kind = "S3" \/ node_type(tree, home, TRUE) = "dir"
               /\ Call("connect", Empty, Empty, o)
               /\ everConnected' = (everConnected \/ is_ok(o.r))

Disconnect ==
    /\ ncalls < MaxCalls
    /\ \E f \in Fails :
           \E o \in {disconnect(c) : c \in {Ctx(f)}} :
               /\ Call("disconnect", Empty, Empty, o)
               /\ UNCHANGED everConnected

IsConnected ==
    /\ ncalls < MaxCalls
    /\ \E o \in {Out(Ctx(0), OkBool(is_connected(Ctx(0))))} :
           /\ Call("is_connected", Empty, Empty, o)
           /\ UNCHANGED everConnected

Pwd ==
    /\ ncalls < MaxCalls
    /\ \E f \in Fails :
           \E o \in {pwd(c) : c \in {Ctx(f)}} :
               /\ Call("pwd", Empty, Empty, o)
               /\ UNCHANGED everConnected

ChangeDir ==
    /\ ncalls < MaxCalls
    /\ \E f \in Fails, dir \in Paths :
           \E o \in {change_dir(c, dir) : c \in {Ctx(f)}} :
               /\ Call("change_dir", dir, Empty, o)
               /\ UNCHANGED everConnected

ListDir ==
    /\ ncalls < MaxCalls
    /\ \E f \in Fails, path \in Paths :
           \E o \in {list_dir(c, path) : c \in {Ctx(f)}} :
               /\ Call("list_dir", path, Empty, o)
               /\ UNCHANGED everConnected

Stat ==
    /\ ncalls < MaxCalls
    /\ \E f \in Fails, path \in PathsAndLinks :
           \E o \in {stat(c, path) : c \in {Ctx(f)}} :
               /\ Call("stat", path, Empty, o)
               /\ UNCHANGED everConnected

\* The sub-steps of ScpFs::setstat and those of them that the remote shell
\* ends with a non-zero exit status.
StatCommands == <<"chmod", "chown", "touch -a", "touch -m">>
NoRefusal == {}
Refusals == SUBSET {StatCommands[i] : i \in 1..Len(StatCommands)}

SetStat ==
    /\ ncalls < MaxCalls
    /\ \E f \in Fails, path \in Attrs, has_mode \in BOOLEAN, has_uid \in BOOLEAN,
          has_gid \in BOOLEAN, refused \in Refusals :
           \E o \in {setstat(c, path, has_mode, has_uid, has_gid, refused) :
                         c \in {Ctx(f)}} :
               /\ (refused = NoRefusal /\ ~has_gid) \/ kind = "SCP"
               /\ refused = NoRefusal \/ ~has_gid
               /\ Call("setstat", path,
                       [mode |-> has_mode, uid |-> has_uid, gid |-> has_gid,
                        owner |-> chown_owner(has_uid, has_gid),
                        refused |-> refused], o)
               /\ UNCHANGED everConnected

Exists ==
    /\ ncalls < MaxCalls
    /\ \E f \in Fails, path \in PathsAndLinks :
           \E o \in {exists(c, path) : c \in {Ctx(f)}} :
               /\ Call("exists", path, Empty, o)
               /\ UNCHANGED everConnected

RemoveFile ==
    /\ ncalls < MaxCalls
    /\ \E f \in Fails, path \in Paths :
           \E o \in {remove_file(c, path) : c \in {Ctx(f)}} :
               /\ Call("remove_file", path, Empty, o)
               /\ UNCHANGED everConnected

RemoveDir ==
    /\ ncalls < MaxCalls
    /\ \E f \in Fails, path \in Paths :
           \E o \in {remove_dir(c, path) : c \in {Ctx(f)}} :
               /\ Call("remove_dir", path, Empty, o)
               /\ UNCHANGED everConnected

RemoveDirAll ==
    /\ ncalls < MaxCalls
    /\ \E f \in Fails, path \in PathsAndLinks :
           \E o \in {remove_dir_all(c, path) : c \in {Ctx(f)}} :
               /\ Call("remove_dir_all", path, Empty, o)
               /\ UNCHANGED everConnected

CreateDir ==
    /\ ncalls < MaxCalls
    /\ \E f \in Fails, path \in NewDirs :
           \E o \in {create_dir(c, path) : c \in {Ctx(f)}} :
               /\ Call("create_dir", path, Empty, o)
               /\ UNCHANGED everConnected

Symlink ==
    /\ ncalls < MaxCalls
    /\ \E f \in Fails, path \in LinkPaths, target \in LinkTargets :
           \E o \in {symlink(c, path, target) : c \in {Ctx(f)}} :
               /\ Call("symlink", path, target, o)
               /\ UNCHANGED everConnected

Copy ==
    /\ ncalls < MaxCalls
    /\ \E f \in Fails, src \in Sources, dest \in Dests :
           \E o \in {copy(c, src, dest) : c \in {Ctx(f)}} :
               /\ Call("copy", src, dest, o)
               /\ UNCHANGED everConnected

Mov ==
    /\ ncalls < MaxCalls
    /\ \E f \in Fails, src \in Sources, dest \in Dests :
           \E o \in {mov(c, src, dest) : c \in {Ctx(f)}} :
               /\ Call("mov", src, dest, o)
               /\ UNCHANGED everConnected

Exec ==
    /\ ncalls < MaxCalls
    /\ \E f \in Fails :
           \E o \in {exec(c) : c \in {Ctx(f)}} :
               /\ Call("exec", Empty, Empty, o)
               /\ UNCHANGED everConnected

Append_ ==
    /\ ncalls < MaxCalls
    /\ \E f \in Fails, path \in Files :
           \E o \in {append(c, path) : c \in {Ctx(f)}} :
               /\ Call("append", path, Empty, o)
               /\ UNCHANGED everConnected

Create ==
    /\ ncalls < MaxCalls
    /\ \E f \in Fails, path \in Files :
           \E o \in {create(c, path) : c \in {Ctx(f)}} :
               /\ Call("create", path, Empty, o)
               /\ UNCHANGED everConnected

Open ==
    /\ ncalls < MaxCalls
    /\ \E f \in Fails, path \in Files :
           \E o \in {open(c, path) : c \in {Ctx(f)}} :
               /\ Call("open", path, Empty, o)
               /\ UNCHANGED everConnected

\* Lengths in bytes of the data to copy: nothing, and two bytes.
Lengths == {0, 2}

\* The backend call that fails during a helper: none, or one of the first
\* MaxFail + 1 (the opening, the copy, the finalization).
HelperFails == 0..(MaxFail + 1)

AppendFile ==
    /\ ncalls < MaxCalls
    /\ \E f \in HelperFails, path \in Files, len \in Lengths :
           \E o \in {RemoteFs_append_file(c, path, len) : c \in {Ctx(f)}} :
               /\ Call("append_file", path, [len |-> len, sz |-> o.sz], o)
               /\ UNCHANGED everConnected

CreateFile ==
    /\ ncalls < MaxCalls
    /\ \E f \in HelperFails, path \in Files, len \in Lengths :
           \E o \in {RemoteFs_create_file(c, path, len) : c \in {Ctx(f)}} :
               /\ Call("create_file", path, [len |-> len, sz |-> o.sz], o)
               /\ UNCHANGED everConnected

OpenFile ==
    /\ ncalls < MaxCalls
    /\ \E f \in HelperFails, path \in Files, len \in Lengths :
           \E o \in {RemoteFs_open_file(c, path, len) : c \in {Ctx(f)}} :
               /\ Call("open_file", path, [len |-> len, sz |-> o.sz], o)
               /\ UNCHANGED everConnected

\* Wildcard patterns: a name, any name, any name of one character.
Patterns == {<<"f">>, <<"*">>, <<"?">>}

Find ==
    /\ ncalls < MaxCalls
    /\ \E f \in Fails, search \in Patterns :
           \E o \in {find(c, search) : c \in {Ctx(f)}} :
               /\ Call("find", search, Empty, o)
               /\ UNCHANGED everConnected

Next ==
    \/ Connect \/ Disconnect \/ IsConnected
    \/ Pwd \/ ChangeDir \/ ListDir \/ Stat \/ SetStat \/ Exists
    \/ RemoveFile \/ RemoveDir \/ RemoveDirAll \/ CreateDir
    \/ Symlink \/ Copy \/ Mov \/ Exec \/ Append_ \/ Create \/ Open
    \/ AppendFile \/ CreateFile \/ OpenFile
    \/ Find

Spec == Init /\ [][Next]_vars

\* ------------------------------------------------------------------------
\* Properties
\* ------------------------------------------------------------------------

\* The data operations of the trait.
DataOps ==
    {"pwd", "change_dir", "list_dir", "stat", "setstat", "exists",
     "create_dir", "remove_file", "remove_dir", "remove_dir_all", "symlink",
     "copy", "mov", "exec", "create", "append", "open"}

\* The operations a driver answers with UnsupportedFeature.
Unsupported(k) ==
    CASE k = "S3"   -> {"setstat", "symlink", "copy", "mov", "exec", "append",
                        "create", "open"}
      [] k = "FTP"  -> {"setstat", "symlink", "copy", "exec"}
      [] k = "SFTP" -> {}
      [] k = "SCP"  -> {"append"}

\* The last call failed because a backend call of it was made to fail.
Failed == last.failAt > 0

\* The last call left the client and the remote side as it found them.
Unchanged == Snapshot = pre

\* The context the last call ran in, with backend call f failing.
PreCtx(f) ==
    [kind |-> kind, session |-> pre.session, wrkdir |-> pre.wrkdir,
     bucket |-> pre.bucket, tree |-> pre.tree, calls |-> 0, log |-> <<>>,
     failAt |-> f]

NoSessionError ==
    IF last.op \in Unsupported(kind) THEN "UnsupportedFeature"
    ELSE "NotConnected"

\* The transitions of the connection state, apart from the answer of the
\* data operations: the session is absent after construction, present after
\* a connect that returns Ok, absent after a disconnect that returns Ok, and
\* touched by nothing else; is_connected reports it; a disconnect without a
\* session returns NotConnected, makes no backend call and changes nothing.
ConnectionTransitions ==
    /\ (last.op = "new") => ~is_connected(Ctx(0))
    /\ (last.op = "connect" /\ is_ok(last.res)) => is_connected(Ctx(0))
    /\ (last.op = "disconnect" /\ is_ok(last.res)) =>
            (pre.session /\ ~is_connected(Ctx(0)))
    /\ (session # pre.session) =>
            (last.op \in {"connect", "disconnect"} /\ is_ok(last.res))
    /\ (last.op = "is_connected") => (last.res.flag = pre.session)
    /\ (last.op = "disconnect" /\ ~pre.session) =>
            /\ last.res.kind = "NotConnected"
            /\ last.log = <<>>
            /\ Unchanged

C3_WrkdirChangedOnlyByChangeDir ==
    /\ (last.op = "new") => wrkdir = ROOT
    /\ (wrkdir # pre.wrkdir) => (last.op = "change_dir" /\ is_ok(last.res))

\* C3, amended: the working directory is `/` after construction and changes
\* only in a call that returns Ok, either a change_dir or, on the FTP, SFTP
\* and SCP drivers, a connect, which sets it to the login directory the
\* server reports.
C3_WrkdirChangedOnlyByChangeDirOrConnect ==
    /\ (last.op = "new") => wrkdir = ROOT
    /\ (wrkdir # pre.wrkdir) =>
            /\ is_ok(last.res)
            /\ \/ last.op = "change_dir"
               \/ last.op = "connect" /\ kind # "S3" /\ wrkdir \in Homes

\* A change_dir returned Ok and moved the working directory.
C3_Witness ==
    /\ last.op = "change_dir"
    /\ is_ok(last.res)
    /\ wrkdir # pre.wrkdir

\* The key lies exactly one path segment below the prefix: something
\* follows the prefix, and no `/` occurs in it before its last character
\* (the `/` that ends the key of a directory).
OneSegmentBelow(key, prefix) ==
    /\ starts_with(key, prefix)
    /\ LET rest == SubSeq(key, Len(prefix) + 1, Len(key))
       IN  /\ rest # <<>>
           /\ \A i \in 1..(Len(rest) - 1) : rest[i] # SLASH

TargetAbs == absolutize(pre.wrkdir, last.path)
TargetObjectKey == fmt_path(resolve(pre.wrkdir, last.path), FALSE)
TargetKey == fmt_path(resolve(pre.wrkdir, last.path), TRUE)

\* The nodes of a tree at or below path p; the keys of a bucket at or below
\* the key of a directory.
AtOrBelow(tr, p) ==
    {q \in DOMAIN tr :
        q = p \/ starts_with(q, IF p = ROOT THEN ROOT ELSE p \o <<SLASH>>)}
KeysBelow(b, prefix) == {k \in b : starts_with(k, prefix)}

\* Before the last call the target was a directory with something in it.
TargetIsPopulatedDir ==
    IF kind = "S3"
    THEN /\ TargetKey \in pre.bucket
         /\ KeysBelow(pre.bucket, TargetKey) # {TargetKey}
    ELSE /\ TargetAbs \in DOMAIN pre.tree
         /\ pre.tree[TargetAbs].type = "dir"
         /\ AtOrBelow(pre.tree, TargetAbs) # {TargetAbs}

\* Before the last call nothing was at the target, which is not the root.
TargetMissing ==
    /\ ~PathEq(TargetAbs, ROOT)
    /\ IF kind = "S3"
       THEN /\ TargetObjectKey \notin pre.bucket
            /\ KeysBelow(pre.bucket, TargetKey) = {}
       ELSE TargetAbs \notin DOMAIN pre.tree

\* After the last call nothing is left at or below the target.
TargetGone ==
    IF kind = "S3" THEN KeysBelow(bucket, TargetKey) = {}
    ELSE AtOrBelow(tree, TargetAbs) = {}

\* A step of the last call failed: a backend call other than the readlink
\* whose failure make_fsentry ignores.
StepFailed == Failed /\ last.log[last.failAt] # "readlink"

\* C5: after remove_dir_all(D) returns Ok for a directory D with nested
\* files and subdirectories, exists(D) returns false and no entry at or
\* below D remains on the remote.
C5_RemoveDirAllLeavesNothingBelow ==
    (last.op = "remove_dir_all" /\ is_ok(last.res) /\ TargetIsPopulatedDir) =>
        /\ TargetGone
        /\ exists(Ctx(0), TargetAbs).r = OkBool(FALSE)

\* C6: remove_dir_all returns an error whenever a step of the walk fails or
\* the target does not exist.
C6_RemoveDirAllFailsWhenAStepFails ==
    (last.op = "remove_dir_all" /\ pre.session /\ (StepFailed \/ TargetMissing))
        => is_err(last.res)

\* C7: remove_dir on a directory that still has children returns an error
\* and leaves the directory and its children in place.
C7_RemoveDirOnlyWhenEmpty ==
    (last.op = "remove_dir" /\ pre.session /\ TargetIsPopulatedDir) =>
        (is_err(last.res) /\ Unchanged)

\* Before the last call something was at the target: an object or the
\* marker of a directory in the bucket, a node the server resolves.
TargetExists ==
    IF kind = "S3"
    THEN TargetObjectKey \in pre.bucket \/ TargetKey \in pre.bucket
    ELSE lookup(pre.tree, TargetAbs, TRUE).some

\* Before the last call a directory was at the target.
TargetIsDir ==
    IF kind = "S3" THEN TargetKey \in pre.bucket
    ELSE node_type(pre.tree, TargetAbs, TRUE) = "dir"

\* The last call sent the request that creates a directory.
MkdirSent ==
    \E i \in 1..Len(last.log) : last.log[i] \in {"mkdir", "put_object"}

ExistsAgreesWithStat(r) ==
    /\ is_ok(r) => last.res = OkBool(TRUE)
    /\ (is_err(r) /\ r.kind = "NoSuchFileOrDirectory") => last.res = OkBool(FALSE)
    /\ (is_err(r) /\ r.kind # "NoSuchFileOrDirectory") => last.res = Err(r.kind)

\* C9, as stated: on every connected driver exists(p) is Ok(true) exactly
\* when stat(p) succeeds, Ok(false) exactly when stat(p) fails with
\* NoSuchFileOrDirectory, and the error of stat(p) otherwise.
C9_ExistsAgreesWithStatOnEveryDriver ==
    (last.op = "exists" /\ pre.session /\ ~Failed) =>
        ExistsAgreesWithStat(stat(PreCtx(0), last.path).r)

\* C9 on the drivers that derive exists from stat (S3, FTP, SFTP): the
\* answer of exists(p) is the answer of stat(p) mapped as stated, under
\* every failure of the backend. ScpFs::exists runs `test -e` instead.
C9_ExistsAgreesWithStatOnS3FtpSftp ==
    (last.op = "exists" /\ pre.session /\ kind # "SCP") =>
        ExistsAgreesWithStat(stat(PreCtx(last.failAt), last.path).r)

\* Before the last call the target was not a directory: nothing was there,
\* or something that is not a directory (on S3: the path is not the root
\* and the marker of the directory is not in the bucket).
TargetIsNoDirectory ==
    IF kind = "S3"
    THEN ~PathEq(last.path, ROOT) /\ TargetKey \notin pre.bucket
    ELSE node_type(pre.tree, TargetAbs, TRUE) # "dir"

\* C10: on a connected driver, change_dir to a path that does not exist or
\* is not a directory returns an error, which is NoSuchFileOrDirectory or
\* the not-a-directory error BadFile unless a backend call itself failed,
\* and leaves the working directory untouched: pwd returns the same path
\* before and after the call.
C10_FailedChangeDirKeepsWrkdir ==
    (last.op = "change_dir" /\ pre.session /\ TargetIsNoDirectory) =>
        /\ is_err(last.res)
        /\ ~Failed => last.res.kind \in {"NoSuchFileOrDirectory", "BadFile"}
        /\ wrkdir = pre.wrkdir
        /\ is_ok(pwd(Ctx(0)).r)
        /\ pwd(Ctx(0)).r = pwd(PreCtx(0)).r

\* change_dir was called on a connected driver for a path that is no
\* directory and was refused.
C10_Witness ==
    /\ kind = "SCP"
    /\ last.op = "change_dir"
    /\ pre.session
    /\ TargetIsNoDirectory
    /\ last.res.kind = "NoSuchFileOrDirectory"

\* ---------------------------------------------------------------------------
\* C11  Entry paths
\* ---------------------------------------------------------------------------

\* p has a `.` or `..` among its components (Path::components leaves out the
\* `.` segments that are not leading).
HasDotSegment(p) ==
    With(components(p), LAMBDA c :
        \E i \in 1..Len(c) : c[i] = CurDir \/ c[i] = ParentDir)

RootedAndDotFree(p) == is_absolute(p) /\ ~HasDotSegment(p)

ReturnedEntries ==
    last.op \in {"list_dir", "stat"} /\ is_ok(last.res)

\* C11: every Entry returned by list_dir or stat, on every driver and for
\* every caller path (absolute or relative to the working directory), carries
\* a path that is absolute and has no `.` or `..` component.
C11_ReturnedEntryPathsAreAbsolute ==
    ReturnedEntries =>
        \A i \in 1..Len(last.res.entries) :
            RootedAndDotFree(last.res.entries[i].path)

\* ===========================================================================
\* The helper functions on their own
\*
\* FnSpec applies the pure helpers of the crate (path utilities, S3 key
\* formatting, listing parsers, permission conversions) to inputs drawn from
\* bounded sets. The working directory is drawn by FnInit; `last` records the
\* function applied, its input and the value it returned.
\* ===========================================================================

\* ------------------------------------------------------------------------
\* client::ssh::config
\* ------------------------------------------------------------------------

\* An absent number (Option<u16>, Option<Duration>, Option<usize>) and
\* Option::unwrap_or.
NoNumber == [some |-> FALSE, v |-> 0]
unwrap_or(o, d) == IF o.some THEN o.v ELSE d

\* u16's Display: the decimal digits of n.
DecimalDigits == <<"0", "1", "2", "3", "4", "5", "6", "7", "8", "9">>
RECURSIVE to_string(_)
to_string(n) ==
    IF n < 10 THEN <<DecimalDigits[n + 1]>>
    ELSE to_string(n \div 10) \o <<DecimalDigits[(n % 10) + 1]>>

COLON == ":"

\* str::contains(':')
contains(s, ch) == \E i \in 1..Len(s) : s[i] = ch

\* HostParams::default(): nothing is set.
HostParams_default ==
    [host_name |-> None, port |-> NoNumber, user |-> None,
     connect_timeout |-> NoNumber, connection_attempts |-> NoNumber]

\* Config::resolve_host
resolve_host(params, opts) ==
    IF params.host_name.some THEN params.host_name.v ELSE opts.host

\* An address whose port is taken from the configuration file first.
resolve_address_config_first(params, opts) ==
    With(resolve_host(params, opts), LAMBDA host :
        LET port == IF params.port.some THEN params.port.v
                    ELSE unwrap_or(opts.port, 22)
        IN  IF contains(host, COLON) THEN host
            ELSE host \o <<COLON>> \o to_string(port))

\* Config::resolve_address
resolve_address(params, opts) ==
    With(resolve_host(params, opts), LAMBDA host :
        LET port == IF ~opts.port.some THEN unwrap_or(params.port, 22)
                    ELSE opts.port.v
        IN  IF contains(host, COLON) THEN host
            ELSE host \o <<COLON>> \o to_string(port))

\* Config::resolve_username
resolve_username(params, opts) ==
    IF opts.username.some THEN opts.username.v
    ELSE unwrap_or(params.user, Empty)

\* Config::resolve_connection_timeout, in seconds
resolve_connection_timeout(params, opts) ==
    IF opts.connection_timeout.some THEN opts.connection_timeout.v
    ELSE unwrap_or(params.connect_timeout, 30)

\* Config::resolve_connection_attempts
resolve_connection_attempts(params) == unwrap_or(params.connection_attempts, 1)

\* Config::from_params
Config_from_params(params, opts) ==
    [host |-> resolve_host(params, opts),
     address |-> resolve_address(params, opts),
     username |-> resolve_username(params, opts),
     connection_timeout |-> resolve_connection_timeout(params, opts),
     connection_attempts |-> resolve_connection_attempts(params),
     params |-> params]

\* impl TryFrom<&SshOpts> for Config. `file` is what Config::parse makes of
\* the configuration file opts names: the parameters of the host, or an
\* error when the file cannot be opened or parsed.
Config_try_from(opts, file) ==
    IF opts.config_file
    THEN IF ~file.parsed THEN [kind |-> "IoError", config |-> None]
         ELSE [kind |-> "Ok",
               config |-> Some(Config_from_params(file.params, opts))]
    ELSE [kind |-> "Ok",
          config |-> Some(Config_from_params(HostParams_default, opts))]

\* ------------------------------------------------------------------------
\* fs::file::permissions
\* ------------------------------------------------------------------------

\* `as u32` of a bool
bit(b) == IF b THEN 1 ELSE 0

\* A conversion that reads the three bits in the opposite order.
UnixPexClass_from_reversed(bits) ==
    [read    |-> (bits % 2) # 0,
     write   |-> ((bits \div 2) % 2) # 0,
     execute |-> ((bits \div 4) % 2) # 0]

\* impl From<u8> for UnixPexClass
UnixPexClass_from(bits) ==
    [read    |-> ((bits \div 4) % 2) # 0,
     write   |-> ((bits \div 2) % 2) # 0,
     execute |-> (bits % 2) # 0]

\* impl From<UnixPexClass> for u32: at most 7
u32_from_UnixPexClass(pex) ==
    bit(pex.read) * 4 + bit(pex.write) * 2 + bit(pex.execute)

\* impl From<u32> for UnixPex: (user, group, others)
UnixPex_from(x) ==
    <<UnixPexClass_from((x \div 64) % 8),
      UnixPexClass_from((x \div 8) % 8),
      UnixPexClass_from(x % 8)>>

\* impl From<UnixPex> for u32: the shifted classes added up, at most 0o777,
\* so the u32 sum cannot wrap.
u32_from_UnixPex(pex) ==
    u32_from_UnixPexClass(pex[1]) * 64
    + u32_from_UnixPexClass(pex[2]) * 8
    + u32_from_UnixPexClass(pex[3])

WorkDirs == {ROOT, P_d, P_de}

D_cur_e  == <<".", "/", "e">>
D_up_x   == <<".", ".", "/", "x">>
D_e_up_f == <<"e", "/", ".", ".", "/", "f">>
A_d_cur_e == <<"/", "d", "/", ".", "/", "e">>
A_d_up_x  == <<"/", "d", "/", ".", ".", "/", "x">>

\* Caller paths: empty, root, relative and absolute, with and without `.` and
\* `..` components.
PathInputs ==
    {Empty, ROOT, R_e, P_x, P_df, CurDir, ParentDir,
     D_cur_e, D_up_x, D_e_up_f, A_d_cur_e, A_d_up_x}

FnInit ==
    /\ kind \in Kinds
    /\ session = FALSE
    /\ wrkdir \in WorkDirs
    /\ bucket = {}
    /\ tree = EmptyTree
    /\ everConnected = FALSE
    /\ last = NoCall
    /\ pre = Snapshot
    /\ ncalls = 0

\* One application of a helper to fresh inputs: fn(input, arg) returned value.
Apply(fn, input, arg, value) ==
    /\ last.op = NoCall.op
    /\ last' = [op |-> fn, path |-> input, arg |-> arg, res |-> value,
                log |-> <<>>, failAt |-> 0]
    /\ UNCHANGED <<kind, session, wrkdir, bucket, tree, everConnected, pre, ncalls>>

Absolutize ==
    \E p \in PathInputs : Apply("absolutize", p, Empty, absolutize(wrkdir, p))

R_d_slash  == <<"d", "/">>
R_d_slash2 == <<"d", "/", "/">>
A_d_slash  == <<"/", "d", "/">>
A_d_slash2 == <<"/", "d", "/", "/">>

\* Caller paths with trailing slashes as well.
KeyPathInputs == PathInputs \cup {P_d, R_d_slash, R_d_slash2, A_d_slash, A_d_slash2}

FmtPath ==
    /\ kind = "S3"
    /\ \E p \in KeyPathInputs, is_dir \in BOOLEAN :
           Apply("fmt_path", p, is_dir, fmt_path(p, is_dir))

\* The key a driver operation addresses: fmt_path(self.resolve(path), is_dir).
ResolveKey ==
    /\ kind = "S3"
    /\ \E p \in KeyPathInputs, is_dir \in BOOLEAN :
           \E r \in {resolve(wrkdir, p)} :
               Apply("resolve_key", p, is_dir, fmt_path(r, is_dir))

K_slash == <<"/">>
K_x     == <<"d", "e">>
K_d2    == <<"d", "/", "/">>
KP_d    == <<"d">>
KP_de   == <<"d", "/", "e">>
KP_x    == <<"x", "/">>

\* Object keys, among them the file `de` next to the directory `d/`, and
\* keys with an empty segment.
KeyInputs == {Empty, K_slash, KP_d, K_d, K_x, K_de, K_def, K_df, K_f, K_d2, KP_de}

\* Listing prefixes, with and without the closing slash.
PrefixInputs == {Empty, KP_d, K_d, KP_de, K_de, K_d2, KP_x}

IsDirectChild ==
    /\ kind = "S3"
    /\ \E key \in KeyInputs, parent_ \in PrefixInputs :
           Apply("is_direct_child", key, parent_, is_direct_child(key, parent_))

ObjectName ==
    /\ kind = "S3"
    /\ \E key \in KeyInputs :
           Apply("object_name", key, Empty, object_name(key))

\* Object sizes in bytes: the empty object and a non-empty one.
SizeInputs == {0, 1}

ObjectEntry ==
    /\ kind = "S3"
    /\ \E key \in KeyInputs \ {Empty}, size \in SizeInputs :
           \E obj \in {[key |-> key, size |-> size]} :
               Apply("object_entry", key, size, object_entry(obj))

\* The POSIX modes of nine permission bits, 0 to 0o777.
Modes == 0..(8 * 8 * 8 - 1)

UnixPexClasses == [read : BOOLEAN, write : BOOLEAN, execute : BOOLEAN]

\* Every UnixPex value.
UnixPexes == UnixPexClasses \X UnixPexClasses \X UnixPexClasses

\* u32 -> UnixPex -> u32
PexFromMode ==
    \E m \in Modes :
        \E pex \in {UnixPex_from(m)} :
            Apply("UnixPex::from", m, Empty,
                  [pex |-> pex, back |-> u32_from_UnixPex(pex)])

\* UnixPex -> u32 -> UnixPex
ModeFromPex ==
    \E pex \in UnixPexes :
        \E m \in {u32_from_UnixPex(pex)} :
            Apply("u32::from", pex, Empty,
                  [mode |-> m, back |-> UnixPex_from(m)])

\* Tokens of `ls -l` lines.
T_1     == <<"1">>
T_root  == <<"r", "o", "o", "t">>
T_512   == <<"5", "1", "2">>
T_giu   == <<"g", "i", "u">>
T_13    == <<"1", "3">>
T_time  == <<"2", "1", ":", "1", "1">>
T_year  == <<"2", "0", "2", "1">>
T_total == <<"t", "o", "t", "a", "l">>

\* The closure pex of parse_ls_output: the digit of the permission
\* characters field[from + 1 .. to], 4, 2 and 1 for a first, second and third
\* character other than `-`.
pex_count(field, from, to) ==
    LET weight(i) == IF field[from + i] = "-" THEN 0
                     ELSE CASE i = 1 -> 4 [] i = 2 -> 2 [] i = 3 -> 1 [] OTHER -> 0
    IN  IF to - from = 3 THEN weight(1) + weight(2) + weight(3)
        ELSE IF to - from = 2 THEN weight(1) + weight(2)
        ELSE IF to - from = 1 THEN weight(1)
        ELSE 0

\* Metadata::mode of the entry parse_ls_output returns: the UnixPex made of
\* the three digits of the permission field.
parse_ls_output_mode(path, line) ==
    IF ~parse_ls_output(path, line).some THEN None
    ELSE Some(<<UnixPexClass_from(pex_count(line.pex, 0, 3)),
                UnixPexClass_from(pex_count(line.pex, 3, 6)),
                UnixPexClass_from(pex_count(line.pex, 6, 9))>>)

\* The first token: the type character followed by the permission field.
TypeAndPex(type, pex) == <<type>> \o pex

\* `<first> 1 root root 512 giu 13 <time> <name tokens>`
LineOf(first, time, name_toks) ==
    <<first, T_1, T_root, T_root, T_512, T_giu, T_13, time>> \o name_toks

\* Lines whose name field is a path instead of a bare name: `/d/f`,
\* `/l -> /d`, `d/..`, a link line with two arrows and a file line with an
\* arrow.
N_d_up == <<"d", "/", ".", ".">>
EchoedNames ==
    {LineOf(TypeAndPex("-", Pex_rwxr_xr_x), T_time, <<P_df>>),
     LineOf(TypeAndPex("l", Pex_rwxr_xr_x), T_time, <<P_l, ARROW, P_d>>),
     LineOf(TypeAndPex("d", Pex_rwxr_xr_x), T_time, <<N_d_up>>),
     LineOf(TypeAndPex("l", Pex_rwxr_xr_x), T_time, <<<<"l">>, ARROW, P_d, ARROW, P_x>>),
     LineOf(TypeAndPex("-", Pex_rwxr_xr_x), T_time, <<K_f, ARROW, P_d>>)}

\* Lines of `ls -l` output as token sequences: a directory, a file, a link,
\* a line without a name, without a date, `total 4`, the empty line, special
\* files, permission fields of eight and of ten characters, a permission
\* field with a character outside the class, a name with a space, `.` and
\* `..`, and a line whose size is no number.
LsLineInputs ==
    {LineOf(TypeAndPex("d", Pex_rwxr_xr_x), T_time, <<R_e>>),
     LineOf(TypeAndPex("d", Pex_rwxr_xr_x), T_year, <<R_e>>),
     LineOf(TypeAndPex("-", Pex_rwxr_xr_x), T_time, <<K_f>>),
     LineOf(TypeAndPex("-", Pex_rwxr_xr_x), T_time, <<K_f, R_e>>),
     LineOf(TypeAndPex("l", Pex_rwxr_xr_x), T_time, <<<<"l">>, ARROW, P_d>>),
     LineOf(TypeAndPex("l", Pex_rwxr_xr_x), T_time, <<<<"l">>>>),
     LineOf(TypeAndPex("d", Pex_rwxr_xr_x), T_time, <<>>),
     <<TypeAndPex("d", Pex_rwxr_xr_x), T_1, T_root, T_root, T_512, R_e>>,
     <<T_total, <<"4">>>>,
     <<>>,
     LineOf(TypeAndPex("c", Pex_rwxr_xr_x), T_time, <<<<"x">>>>),
     LineOf(TypeAndPex("s", Pex_rwxr_xr_x), T_time, <<<<"x">>>>),
     LineOf(TypeAndPex("-", SubSeq(Pex_rwxr_xr_x, 1, 8)), T_time, <<<<"x">>>>),
     LineOf(TypeAndPex("-", Pex_rwxr_xr_x \o <<"x">>), T_time, <<<<"x">>>>),
     LineOf(TypeAndPex("d", SubSeq(Pex_rwxr_xr_x, 1, 8) \o <<"t">>), T_time, <<R_e>>),
     LineOf(TypeAndPex("d", Pex_rwxr_xr_x), T_time, <<CurDir>>),
     LineOf(TypeAndPex("d", Pex_rwxr_xr_x), T_time, <<ParentDir>>),
     <<TypeAndPex("-", Pex_rwxr_xr_x), T_1, T_root, T_root, T_root, T_giu, T_13,
       T_time, K_f>>}
    \cup EchoedNames


\* parse_ls_output(path, line): the captures of LS_RE, then the entry.
ParseLsOutput ==
    /\ kind = "SCP"
    /\ \E line \in LsLineInputs, path \in {ROOT, P_d} :
           \E metadata \in {LS_RE_captures(line)} :
               Apply("parse_ls_output", line, path,
                     parse_ls_output(path, metadata))

\* The options of the caller and the parameters a configuration file gives
\* for the host: each value present or absent, a host name with and without
\* a colon.
H_h    == <<"h">>
H_h7   == <<"h", ":", "7">>
H_a    == <<"a">>
H_v6   == <<":", ":", "1">>
U_o    == <<"o">>
U_s    == <<"s">>
SshOptsInputs ==
    [host : {H_h, H_h7}, port : {NoNumber, Some(2222)},
     username : {None, Some(U_o)},
     connection_timeout : {NoNumber, Some(10)},
     config_file : BOOLEAN]
HostParamsInputs ==
    [host_name : {None, Some(H_a), Some(H_v6)}, port : {NoNumber, Some(10022)},
     user : {None, Some(U_s)}, connect_timeout : {NoNumber, Some(60)},
     connection_attempts : {NoNumber, Some(3)}]
ConfigFiles ==
    {[parsed |-> FALSE, params |-> HostParams_default]}
        \cup [parsed : {TRUE}, params : HostParamsInputs]

ConfigTryFrom ==
    /\ kind = "SFTP"
    /\ wrkdir = ROOT
    /\ \E opts \in SshOptsInputs, file \in ConfigFiles :
           /\ opts.config_file \/ ~file.parsed
           /\ Apply("Config::try_from", opts, file, Config_try_from(opts, file))

\* Permission fields of `ls -l`: three characters for the user, the group
\* and the others, with the setuid, setgid and sticky characters in the
\* execute position.
UserPex  == {<<"r", "w", "x">>, <<"r", "w", "s">>, <<"r", "w", "S">>,
             <<"r", "w", "-">>, <<"-", "-", "-">>}
GroupPex == {<<"r", "-", "x">>, <<"r", "-", "s">>, <<"r", "-", "S">>,
             <<"-", "w", "-">>, <<"r", "-", "-">>}
OtherPex == {<<"r", "-", "x">>, <<"-", "-", "x">>, <<"r", "-", "t">>,
             <<"r", "-", "T">>, <<"-", "-", "-">>}
PexFields == {u \o g \o o : u \in UserPex, g \in GroupPex, o \in OtherPex}

\* parse_ls_output(path, line) of a well-formed line with the permission
\* field given: the mode of the entry.
ParseLsMode ==
    /\ kind = "SCP"
    /\ wrkdir = ROOT
    /\ \E type \in {"-", "d"}, field \in PexFields :
           \E line \in {LineOf(TypeAndPex(type, field), T_time, <<K_f>>)} :
               \E metadata \in {LS_RE_captures(line)} :
                   Apply("parse_ls_output.mode", line, field,
                         parse_ls_output_mode(P_d, metadata))

FnNext ==
    \/ Absolutize
    \/ FmtPath
    \/ ResolveKey
    \/ IsDirectChild
    \/ ObjectName
    \/ ObjectEntry
    \/ PexFromMode
    \/ ModeFromPex
    \/ ParseLsOutput
    \/ ParseLsMode
    \/ ConfigTryFrom

FnSpec == FnInit /\ [][FnNext]_vars

\* ---------------------------------------------------------------------------
\* C12  absolutize
\* ---------------------------------------------------------------------------

\* The non-empty segments of the text of p.
TextSegments(p) ==
    With(split(p), LAMBDA raw : SelectSeq(raw, LAMBDA s : s # Empty))

Absolutized == last.op = "absolutize"

\* C12: the resolved path is w joined with p with every `.` and
\* `..` collapsed lexically, so it has no `.` or `..` component; an absolute
\* input is returned normalised the same way.
C12_ResolutionCollapsesDots ==
    Absolutized =>
        /\ ~HasDotSegment(last.res)
        /\ PathEq(last.res,
                  normalized(IF is_absolute(last.path) THEN last.path
                             ELSE push(wrkdir, last.path)))

\* What absolutize does: an absolute input is returned unchanged; a relative
\* input is pushed onto the working directory, and the result is the segments
\* of the working directory followed by those of the input, `..` included.
AbsolutizeJoinsWithoutCollapsing ==
    Absolutized =>
        /\ is_absolute(last.path) => last.res = last.path
        /\ ~is_absolute(last.path) =>
               /\ is_absolute(last.res)
               /\ TextSegments(last.res)
                      = TextSegments(wrkdir) \o TextSegments(last.path)

AbsolutizeKeepsParentDir ==
    /\ Absolutized
    /\ ~is_absolute(last.path)
    /\ HasDotSegment(last.path)
    /\ HasDotSegment(last.res)
    /\ wrkdir # ROOT

\* ---------------------------------------------------------------------------
\* C13  fmt_path of a directory
\* ---------------------------------------------------------------------------

EndsWithOneSlash(s) ==
    /\ ends_with(s, SLASH)
    /\ ~(Len(s) >= 2 /\ s[Len(s) - 1] = SLASH)

\* C13: for every path p other than the root, fmt_path(p, true) ends with
\* exactly one `/` and never with `//`; fmt_path("/", true) is empty.
C13_FmtPathDirEndsWithOneSlash ==
    (last.op = "fmt_path" /\ last.arg = TRUE) =>
        IF PathEq(last.path, ROOT) THEN last.res = Empty
        ELSE EndsWithOneSlash(last.res)

\* ---------------------------------------------------------------------------
\* C14  S3 keys
\* ---------------------------------------------------------------------------

\* C14: for every working directory, caller path (absolute, relative, root
\* or empty) and value of is_dir, the key made by resolve and then fmt_path
\* never starts with `/`, and the root maps to the empty key.
C14_ResolvedKeyHasNoLeadingSlash ==
    last.op = "resolve_key" =>
        /\ ~starts_with(last.res, <<SLASH>>)
        /\ PathEq(absolutize(wrkdir, last.path), ROOT) => last.res = Empty

\* ---------------------------------------------------------------------------
\* C15  is_direct_child
\* ---------------------------------------------------------------------------

SlashFree(s) == \A i \in 1..Len(s) : s[i] # SLASH

\* The text of key after the prefix.
Remainder(key, prefix) == SubSeq(key, Len(prefix) + 1, Len(key))

\* rem is one non-empty segment, optionally followed by a single `/`.
OneSegment(rem) ==
    With((IF ends_with(rem, SLASH) THEN SubSeq(rem, 1, Len(rem) - 1) ELSE rem),
         LAMBDA body : body # Empty /\ SlashFree(body))

\* The prefix ends where a segment ends.
AtBoundary(prefix) == prefix = Empty \/ ends_with(prefix, SLASH)

\* A key without empty segments: not empty, no leading `/`, no `//`.
WellFormedKey(key) ==
    /\ key # Empty
    /\ key[1] # SLASH
    /\ \A i \in 1..(Len(key) - 1) : ~(key[i] = SLASH /\ key[i + 1] = SLASH)

DirectChildTested == last.op = "is_direct_child"

\* C15 as stated: is_direct_child(key, prefix) is true exactly when key starts
\* with prefix and the remainder is one non-empty segment, optionally followed
\* by a single `/`.
C15_DirectChildIffOneSegmentAfterPrefix ==
    DirectChildTested =>
        (last.res <=> /\ starts_with(last.path, last.arg)
                      /\ OneSegment(Remainder(last.path, last.arg)))

\* C15 amended: for a key without empty segments, is_direct_child(key, prefix)
\* is true exactly when key starts with prefix, the prefix is empty or ends
\* with `/`, and the remainder is one non-empty segment, optionally followed
\* by a single `/`. For every key a true answer means that key starts with the
\* prefix, that the prefix is empty or ends with `/`, and that the remainder
\* is such a segment or, for a key whose last segment is empty, `/` or empty.
C15_DirectChildIffOneSegmentAfterDirPrefix ==
    DirectChildTested =>
        With(Remainder(last.path, last.arg), LAMBDA rem :
            /\ WellFormedKey(last.path) =>
                   (last.res <=> /\ starts_with(last.path, last.arg)
                                 /\ AtBoundary(last.arg)
                                 /\ OneSegment(rem))
            /\ last.res =>
                   /\ starts_with(last.path, last.arg)
                   /\ AtBoundary(last.arg)
                   /\ OneSegment(rem) \/ (~WellFormedKey(last.path)
                                          /\ rem \in {Empty, <<SLASH>>}))

\* A directory key directly below a non-empty prefix, and a file whose name
\* starts with the name of a directory.
C15_Witness ==
    /\ DirectChildTested
    /\ \/ last.res /\ last.arg # Empty /\ ends_with(last.path, SLASH)
       \/ ~last.res /\ last.path = K_x /\ last.arg = KP_d

\* ---------------------------------------------------------------------------
\* C16  object_name
\* ---------------------------------------------------------------------------

\* C16: for every key with at least one non-empty segment, object_name
\* returns the last non-empty segment (for a key ending in `/` the segment
\* before the trailing slash) and never the empty string.
C16_ObjectNameIsLastNonEmptySegment ==
    last.op = "object_name" =>
        With(TextSegments(last.path), LAMBDA segs :
            segs # <<>> => /\ last.res = segs[Len(segs)]
                           /\ last.res # Empty)

\* ---------------------------------------------------------------------------
\* C17  S3 directory markers
\* ---------------------------------------------------------------------------

ObjectTranslated == last.op = "object_entry"

\* C17: an S3 object becomes a directory entry exactly when its key ends with
\* `/`, whatever its size; the size is carried over unchanged.
C17_DirectoryIffKeyEndsWithSlash ==
    ObjectTranslated =>
        /\ last.res.entry.is_dir <=> ends_with(last.path, SLASH)
        /\ last.res.size = last.arg

\* An empty object that is a file, and a non-empty one that is a directory.
C17_Witness ==
    /\ ObjectTranslated
    /\ \/ last.arg = 0 /\ ~last.res.entry.is_dir
       \/ last.arg = 1 /\ last.res.entry.is_dir

\* ---------------------------------------------------------------------------
\* C18  UnixPex and the mode integer
\* ---------------------------------------------------------------------------

\* read = 4, write = 2, execute = 1 inside a class
ClassBits(c) == bit(c.read) * 4 + bit(c.write) * 2 + bit(c.execute)

\* C18: for every mode m in 0..=0o777, u32::from(UnixPex::from(m)) = m, with
\* m = (user << 6) | (group << 3) | others and read = 4, write = 2,
\* execute = 1 in each class; and UnixPex::from(u32::from(p)) = p for every p.
C18_UnixPexRoundTrip ==
    /\ last.op = "UnixPex::from" =>
           /\ last.res.back = last.path
           /\ last.path = ClassBits(last.res.pex[1]) * 64
                          + ClassBits(last.res.pex[2]) * 8
                          + ClassBits(last.res.pex[3])
    /\ last.op = "u32::from" =>
           /\ last.res.back = last.path
           /\ last.res.mode \in Modes

\* rw-r----x from 0o641, and back from the structure.
C18_Witness ==
    \/ /\ last.op = "UnixPex::from"
       /\ last.path = 6 * 64 + 4 * 8 + 1
       /\ last.res.pex[1] = [read |-> TRUE, write |-> TRUE, execute |-> FALSE]
       /\ last.res.pex[3] = [read |-> FALSE, write |-> FALSE, execute |-> TRUE]
    \/ /\ last.op = "u32::from"
       /\ last.res.mode = 6 * 64 + 4 * 8 + 1

\* ---------------------------------------------------------------------------
\* C19  parse_ls_output
\* ---------------------------------------------------------------------------

LineParsed == last.op = "parse_ls_output"

\* The eight fields of a line are the type, the permissions, the link count,
\* the user, the group, the size, the date (three tokens) and the name: nine
\* tokens at least, the type and the permissions being one token.
FewerThanEightFields(line) == Len(line) < 9

TypeOf(line) == IF line = <<>> \/ line[1] = <<>> THEN "" ELSE line[1][1]

OtherType(line) == TypeOf(line) \notin {"-", "l", "d"}

ShortPex(line) == line = <<>> \/ Len(line[1]) - 1 < 9

\* C19: parse_ls_output gives no entry for a line with fewer than eight
\* fields, with a type character other than `-`, `l`, `d`, or with a
\* permission field shorter than nine characters; for an accepted line the
\* entry is a directory exactly when the type is `d`.
C19_ParseLsOutputRejectsMalformedLines ==
    LineParsed =>
        /\ (\/ FewerThanEightFields(last.path)
            \/ OtherType(last.path)
            \/ ShortPex(last.path)) => ~last.res.some
        /\ last.res.some => (last.res.v.is_dir <=> TypeOf(last.path) = "d")

\* A link line accepted as a non-directory, and a special file rejected.
C19_Witness ==
    /\ LineParsed
    /\ \/ /\ last.res.some
          /\ TypeOf(last.path) = "l"
          /\ ~last.res.v.is_dir
          /\ last.res.v.symlink = Some(P_d)
       \/ /\ ~last.res.some
          /\ TypeOf(last.path) = "c"
          /\ ~FewerThanEightFields(last.path)

\* ---------------------------------------------------------------------------
\* C20  find
\* ---------------------------------------------------------------------------

\* The last segment of a canonical path or of a key.
BareName(p) == With(TextSegments(p), LAMBDA segs : segs[Len(segs)])

\* Where the search starts: the directory the working directory names.
SearchRoot ==
    IF kind = "S3" THEN Some(fmt_path(pre.wrkdir, TRUE))
    ELSE lookup(pre.tree, pre.wrkdir, TRUE)

\* find ran on a connected driver whose working directory exists, and no
\* backend call was made to fail.
Searched ==
    last.op = "find" /\ pre.session /\ last.failAt = 0 /\ SearchRoot.some

\* Everything below the working directory whose bare name matches the
\* pattern: nodes of the tree, objects of the bucket (as absolute paths).
Matching ==
    With(SearchRoot, LAMBDA root :
        IF ~root.some THEN {}
        ELSE IF kind = "S3"
        THEN {absolutize(ROOT, k) :
                k \in {k \in KeysBelow(pre.bucket, root.v) \ {root.v, <<SLASH>>} :
                          wild_matches(last.path, BareName(k))}}
        ELSE {q \in AtOrBelow(pre.tree, root.v) \ {root.v} :
                 wild_matches(last.path, BareName(q))})

\* The place a returned entry is at: its path, made canonical on the hosts.
PlaceOf(entry) ==
    IF kind = "S3" THEN entry.path
    ELSE With(lookup(pre.tree, entry.path, FALSE), LAMBDA q :
             IF q.some THEN q.v ELSE Empty)

Found == {PlaceOf(last.res.entries[i]) : i \in 1..Len(last.res.entries)}

\* C20: on a connected driver find(pattern) returns exactly the entries
\* anywhere below the working directory whose bare name matches the pattern,
\* each once, on every backend.
C20_FindReturnsExactlyTheMatches ==
    Searched =>
        /\ is_ok(last.res)
        /\ Found = Matching
        /\ Cardinality(Found) = Len(last.res.entries)

\* The same on the three POSIX hosts.
FindReturnsExactlyTheMatchesOnHosts ==
    kind # "S3" => C20_FindReturnsExactlyTheMatches

\* A match two levels below the working directory has been returned.
FindWentDeep ==
    /\ Searched
    /\ is_ok(last.res)
    /\ \E i \in 1..Len(last.res.entries) :
           Len(TextSegments(last.res.entries[i].path))
               >= Len(TextSegments(pre.wrkdir)) + 2

\* ------------------------------------------------------------------------
\* C21: operations a driver does not support
\* ------------------------------------------------------------------------

\* The operations named for each driver: S3 and FTP lack them.
Lacking(k) ==
    CASE k = "S3"  -> {"setstat", "symlink", "copy", "mov", "exec"}
      [] k = "FTP" -> {"setstat", "symlink", "copy", "exec"}
      [] OTHER     -> {}

\* The last call was one of these operations, made on a connected client.
LackingCalled == pre.session /\ last.op \in Lacking(kind)

\* C21: on a connected S3 client setstat, symlink, copy, mov and exec, and on
\* a connected FTP client setstat, symlink, copy and exec, return
\* UnsupportedFeature for every argument, call nothing of the backend and
\* leave the remote side, the working directory and the session as they were.
C21_UnsupportedOperationsFailAndChangeNothing ==
    LackingCalled =>
        /\ last.res.kind = "UnsupportedFeature"
        /\ last.log = <<>>
        /\ Unchanged

\* symlink was called on a connected FTP client, or mov on a connected S3
\* client.
C21_Witness ==
    /\ LackingCalled
    /\ \/ kind = "FTP" /\ last.op = "symlink"
       \/ kind = "S3" /\ last.op = "mov"
    /\ last.res.kind = "UnsupportedFeature"

\* ------------------------------------------------------------------------
\* C22: connect on a connected client
\* ------------------------------------------------------------------------

\* The last call was a connect made while the client held a session.
ConnectedAgain == last.op = "connect" /\ pre.session

\* C22: connect called on a client that already holds an established
\* connection returns AlreadyConnected and leaves the existing session in
\* place: no backend call is made and nothing changes.
C22_ConnectWhenConnectedReturnsAlreadyConnected ==
    ConnectedAgain =>
        /\ last.res.kind = "AlreadyConnected"
        /\ last.log = <<>>
        /\ Unchanged

\* What the drivers do instead: a connect on a connected client runs like the
\* first one; it never answers AlreadyConnected, and when it succeeds the
\* client holds the new session.
ConnectWhenConnectedRunsAgain ==
    ConnectedAgain =>
        /\ last.res.kind # "AlreadyConnected"
        /\ is_ok(last.res) => session
        /\ kind # "S3" => last.log # <<>>

\* ------------------------------------------------------------------------
\* C23: failures of the wrapped library
\* ------------------------------------------------------------------------

\* A call of the wrapped library failed during the last data operation.
LibraryFailed == last.op \in DataOps \cup {"find"} /\ Failed

\* C23: whenever the wrapped library reports a protocol or network failure
\* during a driver operation, the operation returns an error of kind
\* ProtocolError or ConnectionError; the failure is never swallowed and never
\* reported under another kind.
C23_LibraryFailuresPropagateAsProtocolOrConnectionError ==
    LibraryFailed => last.res.kind \in {"ProtocolError", "ConnectionError"}

\* The failure of the listing behind AwsS3Fs::list_dir is reported as
\* StatFailed.
S3ListFailureIsStatFailed ==
    (kind = "S3" /\ last.op = "list_dir" /\ Failed)
        => last.res.kind = "StatFailed"

\* The failure of Sftp::stat is reported as NoSuchFileOrDirectory.
SftpStatFailureIsNoSuchFile ==
    (kind = "SFTP" /\ last.op = "stat" /\ Failed)
        => last.res.kind = "NoSuchFileOrDirectory"

\* ------------------------------------------------------------------------
\* C24: remove_file
\* ------------------------------------------------------------------------

\* Before the last call a file was at the target: an object under the key
\* of the path in the bucket, a node of the host that is no directory (a
\* file, or a link, which is removed like a file).
TargetIsFile ==
    IF kind = "S3"
    THEN ~ends_with(TargetObjectKey, SLASH) /\ TargetObjectKey \in pre.bucket
    ELSE node_type(pre.tree, TargetAbs, FALSE) \in {"file", "link"}

\* The last call was a remove_file on a connected client.
FileRemoved == last.op = "remove_file" /\ pre.session

\* What remove_file(p) has to do: when it returns Ok, exists(p) answers
\* false afterwards; when no file is at p, it fails.
RemoveFileRemovesTheFile ==
    /\ is_ok(last.res) => exists(Ctx(0), TargetAbs).r = OkBool(FALSE)
    /\ ~TargetIsFile => is_err(last.res)

\* C24: on every backend remove_file(p) removes the file at p - after it
\* returns Ok, exists(p) returns false - and it fails when p does not exist
\* or is not a file.
C24_RemoveFileRemovesTheFile ==
    FileRemoved => RemoveFileRemovesTheFile

\* The same on the FTP, SFTP and SCP drivers alone.
RemoveFileRemovesTheFileOnHosts ==
    (FileRemoved /\ kind # "S3") => RemoveFileRemovesTheFile

\* A file was removed from a host.
RemoveFileRemovedAFile ==
    FileRemoved /\ kind # "S3" /\ TargetIsFile /\ is_ok(last.res)

\* ------------------------------------------------------------------------
\* C25: remove_dir_all and symbolic links
\* ------------------------------------------------------------------------

\* The last call was a remove_dir_all, on a connected client, of a path at
\* which a symbolic link to a directory was.
LinkToDirRemoved ==
    /\ last.op = "remove_dir_all"
    /\ pre.session
    /\ kind # "S3"
    /\ node_type(pre.tree, TargetAbs, FALSE) = "link"
    /\ node_type(pre.tree, TargetAbs, TRUE) = "dir"

\* The directory the link pointed to.
LinkTarget == lookup(pre.tree, TargetAbs, TRUE).v

\* Everything at or below the directory the link pointed to is still there.
LinkTargetKept ==
    \A q \in AtOrBelow(pre.tree, LinkTarget) : q \in DOMAIN tree

\* C25: remove_dir_all does not follow symbolic links: called on a symbolic
\* link that points to a directory it removes only the link itself, and
\* every entry inside the target directory of the link is left in place.
C25_RemoveDirAllDoesNotFollowLinks ==
    LinkToDirRemoved =>
        /\ LinkTargetKept
        /\ is_ok(last.res) => TargetAbs \notin DOMAIN tree

\* The same on ScpFs alone, which runs `rm -rf`.
ScpRemoveDirAllDoesNotFollowLinks ==
    (LinkToDirRemoved /\ kind = "SCP") =>
        /\ LinkTargetKept
        /\ is_ok(last.res) => TargetAbs \notin DOMAIN tree

\* ScpFs removed a link to a directory.
ScpRemovedALink ==
    LinkToDirRemoved /\ kind = "SCP" /\ is_ok(last.res)

\* ------------------------------------------------------------------------
\* C26: the sub-steps of ScpFs::setstat
\* ------------------------------------------------------------------------

\* The last call was a setstat on a connected ScpFs.
ScpSetStat == last.op = "setstat" /\ kind = "SCP" /\ pre.session

\* The sub-steps setstat has to issue for the metadata it was given, in
\* order: chmod if a mode is given, chown if an owner is given, touch -a,
\* touch -m.
SubSteps ==
    SelectSeq(StatCommands, LAMBDA cmd :
        /\ cmd = "chmod" => last.arg.mode
        /\ cmd = "chown" => last.arg.uid)

\* The sub-steps the last call issued: what follows the existence check.
Issued == Tail(last.log)

\* The number of sub-steps up to the first one the shell refuses; all of
\* them when it refuses none.
UpToFirstRefused ==
    With(SubSteps, LAMBDA steps :
        IF \E i \in 1..Len(steps) : steps[i] \in last.arg.refused
        THEN CHOOSE i \in 1..Len(steps) :
                 /\ steps[i] \in last.arg.refused
                 /\ \A j \in 1..(i - 1) : steps[j] \notin last.arg.refused
        ELSE Len(steps))

\* A sub-step was refused with a non-zero exit status.
SomeRefused == \E i \in 1..Len(SubSteps) : SubSteps[i] \in last.arg.refused

\* C26: ScpFs::setstat on an existing path issues chmod (if a mode is
\* given), chown (if an owner is given), touch -a, touch -m in this order;
\* the first sub-step that exits with a non-zero status ends the call with
\* StatFailed and no later sub-step is issued; on a path that does not exist
\* the call fails with NoSuchFileOrDirectory before any sub-step.
C26_ScpSetStatSubStepsInOrder ==
    ScpSetStat =>
        /\ last.log[1] = "test -e"
        /\ ~TargetExists =>
               /\ last.res.kind = "NoSuchFileOrDirectory"
               /\ Issued = <<>>
        /\ (TargetExists /\ ~Failed) =>
               /\ Issued = SubSeq(SubSteps, 1, UpToFirstRefused)
               /\ last.res.kind = (IF SomeRefused THEN "StatFailed" ELSE "Ok")
        /\ (TargetExists /\ Failed) =>
               /\ Len(Issued) <= UpToFirstRefused
               /\ Issued = SubSeq(SubSteps, 1, Len(Issued))

\* chown was refused after chmod had succeeded: the touches were not issued.
C26_Witness ==
    /\ ScpSetStat
    /\ TargetExists
    /\ ~Failed
    /\ last.arg.mode /\ last.arg.uid
    /\ last.arg.refused = {"chown", "touch -m"}
    /\ Issued = <<"chmod", "chown">>
    /\ last.res.kind = "StatFailed"

\* ------------------------------------------------------------------------
\* C27: create_dir below a missing directory
\* ------------------------------------------------------------------------

\* The directory the target of the last call is to be created in.
TargetParent == parent(TargetAbs)

\* Before the last call nothing was at the parent of the target: in the
\* bucket no object at or below its key, on the host no node.
ParentMissing ==
    /\ TargetParent.some
    /\ ~PathEq(TargetParent.v, ROOT)
    /\ IF kind = "S3"
       THEN KeysBelow(pre.bucket, fmt_path(TargetParent.v, TRUE)) = {}
       ELSE ~lookup(pre.tree, TargetParent.v, TRUE).some

\* The last call was a create_dir, on a connected client, of a path whose
\* parent directory did not exist.
CreatedBelowMissing == last.op = "create_dir" /\ pre.session /\ ParentMissing

\* C27: on every backend, S3 included, create_dir(p) returns an error and
\* creates nothing when the parent directory of p does not exist.
C27_CreateDirFailsWithoutParent ==
    CreatedBelowMissing => (is_err(last.res) /\ Unchanged)

\* The same on the FTP, SFTP and SCP drivers alone.
CreateDirFailsWithoutParentOnHosts ==
    (CreatedBelowMissing /\ kind # "S3") => (is_err(last.res) /\ Unchanged)

\* create_dir was refused on a host for a path below a missing directory.
CreateDirRefusedOnHost ==
    CreatedBelowMissing /\ kind = "SFTP" /\ ~Failed /\ is_err(last.res)

\* ------------------------------------------------------------------------
\* C28: the path change_dir returns
\* ------------------------------------------------------------------------

\* The last call was a change_dir that succeeded.
DirChanged == last.op = "change_dir" /\ is_ok(last.res)

\* The path the last call returned is the one pwd returns now.
ReturnedPathIsPwd ==
    With(pwd(Ctx(0)).r, LAMBDA now :
        is_ok(now) /\ PathEq(now.path, last.res.path))

\* C28: when change_dir(d) succeeds it returns the real path of the new
\* working directory: for every driver and every d, absolute or relative,
\* the returned path equals what pwd() returns immediately afterwards.
C28_ChangeDirReturnsNewWorkingDirectory ==
    DirChanged => ReturnedPathIsPwd

\* The same on the drivers that keep the working directory themselves.
ChangeDirReturnsNewWorkingDirectoryExceptFtp ==
    (DirChanged /\ kind # "FTP") => ReturnedPathIsPwd

\* A relative change_dir succeeded on one of these drivers.
RelativeChangeDirSucceeded ==
    DirChanged /\ kind = "SFTP" /\ ~is_absolute(last.path)

\* ------------------------------------------------------------------------
\* C29: entering the root
\* ------------------------------------------------------------------------

\* The last call was a change_dir to `/` on a connected driver.
RootEntered == last.op = "change_dir" /\ pre.session /\ PathEq(last.path, ROOT)

\* The call succeeded and pwd returns `/` now.
NowAtRoot ==
    /\ is_ok(last.res)
    /\ PathEq(wrkdir, ROOT)
    /\ With(pwd(Ctx(0)).r, LAMBDA now : is_ok(now) /\ PathEq(now.path, ROOT))

ConfigResolved == last.op = "Config::try_from" /\ last.res.kind = "Ok"

\* The options, the parameters the resolution used and the Config it made.
Opts == last.path
Params == IF Opts.config_file THEN last.arg.params ELSE HostParams_default
Resolved == last.res.config.v

\* The first present value of the explicit option and of the value of the
\* configuration file, else the built-in default.
ByPriority(option, configured, default) ==
    IF option.some THEN option.v
    ELSE IF configured.some THEN configured.v
    ELSE default

\* The number written in decimal digits; -1 for a text that is no number.
RECURSIVE parse_number(_)
parse_number(s) ==
    IF s = <<>> THEN -1
    ELSE LET d == CHOOSE k \in 0..10 :
                      k = 10 \/ DecimalDigits[k + 1] = s[Len(s)]
         IN  IF d = 10 THEN -1
             ELSE IF Len(s) = 1 THEN d
             ELSE With(parse_number(SubSeq(s, 1, Len(s) - 1)), LAMBDA hi :
                      IF hi < 0 THEN -1 ELSE hi * 10 + d)

\* The port of an address host:port: the number after its last colon.
PortOf(address) ==
    IF ~contains(address, COLON) THEN -1
    ELSE With(CHOOSE i \in 1..Len(address) :
                  /\ address[i] = COLON
                  /\ \A j \in (i + 1)..Len(address) : address[j] # COLON,
              LAMBDA i : parse_number(SubSeq(address, i + 1, Len(address))))

\* Timeout, user name and attempts follow the priority.
OthersByPriority ==
    /\ Resolved.connection_timeout
           = ByPriority(Opts.connection_timeout, Params.connect_timeout, 30)
    /\ Resolved.username = ByPriority(Opts.username, Params.user, Empty)
    /\ Resolved.connection_attempts
           = ByPriority(NoNumber, Params.connection_attempts, 1)

\* C30, as stated: for every combination of present and absent values the
\* port is the explicit option, else the Port of the configuration file,
\* else 22; the connection timeout is the explicit option, else the
\* ConnectTimeout of the file, else 30 seconds; the user name is the explicit
\* option, else the User of the file, else empty; the connection attempts
\* are the value of the file, else 1.
C30_HostParametersResolveByPriority ==
    ConfigResolved =>
        /\ PortOf(Resolved.address) = ByPriority(Opts.port, Params.port, 22)
        /\ OthersByPriority

\* C30, amended: timeout, user name and attempts follow the priority for
\* every combination; the host is the HostName of the file, else the host of
\* the options; the address is host:port with the port taken by priority
\* when the host holds no colon, and the host alone, whatever the port
\* values, when it holds one.
C30_HostParametersResolveByPriorityUnlessHostHasColon ==
    ConfigResolved =>
        /\ OthersByPriority
        /\ Resolved.host = ByPriority(Params.host_name, Some(Opts.host), Empty)
        /\ IF contains(Resolved.host, COLON)
           THEN Resolved.address = Resolved.host
           ELSE /\ Resolved.address
                       = Resolved.host \o <<COLON>>
                           \o to_string(ByPriority(Opts.port, Params.port, 22))
                /\ PortOf(Resolved.address)
                       = ByPriority(Opts.port, Params.port, 22)

\* The option and the file both give a port, a timeout and a user name, and
\* the values of the option were taken.
C30_Witness ==
    /\ ConfigResolved
    /\ Opts.config_file
    /\ Opts.port.some /\ Params.port.some
    /\ Opts.username.some /\ Params.user.some
    /\ Opts.connection_timeout.some /\ Params.connect_timeout.some
    /\ Params.connection_attempts.some
    /\ Resolved.address = H_h \o <<COLON>> \o <<"2", "2", "2", "2">>
    /\ Resolved.connection_attempts = 3

\* ---------------------------------------------------------------------------
\* C31  the mode of an entry parsed from `ls -l`
\* ---------------------------------------------------------------------------

ModeParsed == last.op = "parse_ls_output.mode"

\* The octal digit of the three permission characters from position from:
\* 4, 2 and 1 for each character that is not `-`.
DigitOf(field, from) ==
    (IF field[from] # "-" THEN 4 ELSE 0)
    + (IF field[from + 1] # "-" THEN 2 ELSE 0)
    + (IF field[from + 2] # "-" THEN 1 ELSE 0)

ExpectedMode(field) ==
    DigitOf(field, 1) * 64 + DigitOf(field, 4) * 8 + DigitOf(field, 7)

\* The permission field has only characters LS_RE takes.
InPexClass(field) == \A i \in 1..Len(field) : field[i] \in PexChars

\* C31: for every `ls -l` line whose permission field is nine characters of
\* `-`, `r`, `w`, `x`, `s`, `S`, `t`, `T`, parse_ls_output yields an entry
\* whose mode has for each class the digit 4*[first not -] + 2*[second not -]
\* + 1*[third not -], a setuid, setgid or sticky character counting like `x`.
C31_ParsedModeCountsEveryPermissionCharacter ==
    ModeParsed =>
        /\ last.res.some
        /\ u32_from_UnixPex(last.res.v) = ExpectedMode(last.arg)

\* What the code does: the mode is as stated for the fields made of `-`,
\* `r`, `w`, `x`, `s`, and a field with `S`, `t` or `T` gives no entry.
ParsedModeOfMatchedFields ==
    ModeParsed =>
        /\ last.res.some <=> InPexClass(last.arg)
        /\ last.res.some => u32_from_UnixPex(last.res.v) = ExpectedMode(last.arg)

\* `rwsr-sr-x` parsed as 0o755.
ParsedSetuidAsExecute ==
    /\ ModeParsed
    /\ last.arg = <<"r", "w", "s", "r", "-", "s", "r", "-", "x">>
    /\ last.res.some
    /\ u32_from_UnixPex(last.res.v) = 7 * 64 + 5 * 8 + 5

\* ---------------------------------------------------------------------------
\* C32  name, path and link target of an entry parsed from `ls -l`
\* ---------------------------------------------------------------------------

\* The tokens of the name field of a line: what follows the date.
NameTokens(line) == SubSeq(line, 9, Len(line))

HasArrow(toks) == \E i \in 1..Len(toks) : toks[i] = ARROW

FirstArrow(toks) ==
    CHOOSE i \in 1..Len(toks) : toks[i] = ARROW /\ \A j \in 1..(i - 1) : toks[j] # ARROW

IsLinkLine(line) == TypeOf(line) = "l" /\ HasArrow(NameTokens(line))

\* The name field, or its part left of ` -> ` on a link line.
NamePart(line) ==
    IF IsLinkLine(line)
    THEN join(SubSeq(NameTokens(line), 1, FirstArrow(NameTokens(line)) - 1))
    ELSE join(NameTokens(line))

\* The part of the name field right of ` -> `.
TargetPart(line) ==
    join(SubSeq(NameTokens(line), FirstArrow(NameTokens(line)) + 1,
                Len(NameTokens(line))))

\* The final path component of s: what follows its last `/`.
FinalComponent(s) == With(split(s), LAMBDA segs : segs[Len(segs)])

\* Directory dir joined with a bare name.
Joined(dir, name) ==
    IF ends_with(dir, SLASH) THEN dir \o name ELSE dir \o <<SLASH>> \o name

\* C32: for every accepted `ls -l` line the entry's name is the final path
\* component of the name field (of its part left of ` -> ` on a symlink
\* line), its path is the listed directory joined with that name, and its
\* symlink target is the part right of ` -> ` on a symlink line and absent on
\* every other line.
C32_EntryNamePathAndLinkFromNameField ==
    (LineParsed /\ last.res.some) =>
        /\ last.res.v.name = FinalComponent(NamePart(last.path))
        /\ last.res.v.path = Joined(last.arg, FinalComponent(NamePart(last.path)))
        /\ last.res.v.symlink.some <=> IsLinkLine(last.path)
        /\ IsLinkLine(last.path) => last.res.v.symlink.v = TargetPart(last.path)

\* The name field ends in `..`, or the link line has a second arrow.
EndsInParentDir(s) == FinalComponent(s) = ParentDir

TwoArrows(line) ==
    /\ IsLinkLine(line)
    /\ \E i, j \in 1..Len(NameTokens(line)) :
           i < j /\ NameTokens(line)[i] = ARROW /\ NameTokens(line)[j] = ARROW

\* What the code does: as stated, for the lines whose name does not end in
\* `..` and that have one arrow at most.
EntryNamePathAndLinkOfPlainNames ==
    (LineParsed /\ last.res.some
     /\ ~EndsInParentDir(NamePart(last.path)) /\ ~TwoArrows(last.path)) =>
        /\ last.res.v.name = FinalComponent(NamePart(last.path))
        /\ last.res.v.path = Joined(last.arg, FinalComponent(NamePart(last.path)))
        /\ last.res.v.symlink.some <=> IsLinkLine(last.path)
        /\ IsLinkLine(last.path) => last.res.v.symlink.v = TargetPart(last.path)

\* `/l -> /d` listed in /d parsed as the link l at /d/l with target /d.
ParsedEchoedLink ==
    /\ LineParsed
    /\ last.arg = P_d
    /\ NameTokens(last.path) = <<P_l, ARROW, P_d>>
    /\ last.res.some
    /\ last.res.v.name = <<"l">>
    /\ last.res.v.path = <<"/", "d", "/", "l">>
    /\ last.res.v.symlink = Some(P_d)

\* `d/..` listed in /d parsed as an entry named `d/..`.
ParsedParentDirName ==
    /\ LineParsed
    /\ last.arg = P_d
    /\ NameTokens(last.path) = <<N_d_up>>
    /\ last.res.some
    /\ last.res.v.name = N_d_up

\* ---------------------------------------------------------------------------
\* C33  ScpFs::list_dir: one entry per line that parses
\* ---------------------------------------------------------------------------

ScpListed == kind = "SCP" /\ last.op = "list_dir" /\ is_ok(last.res) /\ TargetIsDir

\* The nodes `ls -la` prints after the header, `.` and `..`, in its order.
ListedNodes == children(pre.tree, lookup(pre.tree, TargetAbs, TRUE).v)

\* C33: list_dir of an existing directory on SCP returns, in output order,
\* exactly one entry per output line that parses: the header line is skipped
\* without failing the listing and no entry is named `.` or `..`.
C33_ScpListDirOneEntryPerParsedLine ==
    ScpListed =>
        /\ Len(last.res.entries) = Len(ListedNodes)
        /\ \A i \in 1..Len(last.res.entries) :
               /\ last.res.entries[i].name = file_name(ListedNodes[i]).v
               /\ last.res.entries[i].is_dir <=> pre.tree[ListedNodes[i]].type = "dir"
               /\ last.res.entries[i].name \notin {CurDir, ParentDir}

\* A listing of two entries or more, after the header, `.` and `..`.
C33_Witness ==
    /\ ScpListed
    /\ Len(last.res.entries) >= 2
    /\ \E i \in 1..Len(last.res.entries) : last.res.entries[i].symlink.some

\* ---------------------------------------------------------------------------
\* C34, C35  the blocking helpers append_file, create_file, open_file
\* ---------------------------------------------------------------------------

Helper == last.op \in {"append_file", "create_file", "open_file"}

\* The finalization of the helper called: on_read for open_file, on_written
\* for the other two.
Finalizer == IF last.op = "open_file" THEN "on_read" ELSE "on_written"

StepsAt(step) == {i \in 1..Len(last.log) : last.log[i] = step}

CopyAt == StepsAt("io::copy")
FinalizedAt == StepsAt("on_written") \cup StepsAt("on_read")

\* The calls to the backend that open the stream: what precedes the copy.
OpeningCalls == {"append", "put", "retr", "create", "open", "scp_send", "scp_recv"}

StreamOpened == CopyAt # {}

\* C34: the default create_file, append_file and open_file helpers on a
\* connected client open the stream, copy all the bytes, then call the
\* finalization (on_written / on_read) exactly once, in this order, and
\* return the number of bytes copied; on a disconnected client they return
\* NotConnected and open no stream.
C34_HelpersOpenCopyFinalizeInOrder ==
    Helper =>
        /\ ~pre.session => (last.res.kind = "NotConnected" /\ last.log = <<>>)
        /\ Cardinality(CopyAt) <= 1
        /\ Cardinality(FinalizedAt) <= 1
        /\ \A i \in CopyAt :
               i > 1 /\ last.log[i - 1] \in OpeningCalls
        /\ \A i \in FinalizedAt :
               /\ last.log[i] = Finalizer
               /\ i - 1 \in CopyAt
        /\ is_ok(last.res) =>
               /\ pre.session
               /\ Cardinality(CopyAt) = 1
               /\ Cardinality(FinalizedAt) = 1
               /\ last.arg.sz = last.arg.len

\* create_file of two bytes on FTP: put, copy, on_written with its
\* finalize_put_stream, and 2 returned.
C34_Witness ==
    /\ Helper
    /\ kind = "FTP"
    /\ last.op = "create_file"
    /\ is_ok(last.res)
    /\ last.log = <<"put", "io::copy", "on_written", "finalize_put_stream">>
    /\ last.arg.sz = 2

\* A helper called on a client that is not connected.
HelperRefusedWhenNotConnected ==
    /\ Helper
    /\ ~pre.session
    /\ last.res.kind = "NotConnected"
    /\ last.log = <<>>

\* C35: every stream opened by the default create_file, append_file or
\* open_file helper is finalized (on_written / on_read is called on it)
\* before the helper returns, also when the copy fails part-way.
C35_OpenedStreamIsFinalizedBeforeReturn ==
    (Helper /\ StreamOpened) => FinalizedAt # {}

\* What the code does: the stream is finalized when the copy has succeeded,
\* and only then.
OpenedStreamIsFinalizedUnlessCopyFails ==
    (Helper /\ StreamOpened) =>
        (FinalizedAt # {} <=> last.failAt \notin CopyAt)

\* A copy that failed after the stream was opened.
CopyFailedPartWay ==
    /\ Helper
    /\ StreamOpened
    /\ last.failAt \in CopyAt
    /\ last.res.kind = "ProtocolError"
    /\ FinalizedAt = {}

\* ---------------------------------------------------------------------------
\* C36  AwsS3Fs: relative paths of list_dir
\* ---------------------------------------------------------------------------

S3Listed == kind = "S3" /\ last.op = "list_dir" /\ is_ok(last.res)

\* The entries of the objects one segment below the prefix.
ChildrenOf(prefix) ==
    {S3Object(key) : key \in {k \in pre.bucket :
                                  OneSegmentBelow(k, prefix) /\ k # prefix}}

Listed == {last.res.entries[i] : i \in 1..Len(last.res.entries)}

\* C36: on S3 list_dir(p) resolves a relative p against the working
\* directory w like every other path operation: it lists w joined with p,
\* the location that stat(p), create_dir(p) and remove_dir(p) address.
C36_S3ListDirResolvesAgainstWorkingDirectory ==
    S3Listed => Listed = ChildrenOf(fmt_path(TargetAbs, TRUE))

\* What the code does: list_dir lists the prefix made of the path as given.
S3ListDirListsThePathAsGiven ==
    S3Listed => Listed = ChildrenOf(fmt_path(last.path, TRUE))

\* list_dir("e") in /d returned nothing although d/e/f is in the bucket.
S3ListedRelativeElsewhere ==
    /\ S3Listed
    /\ pre.wrkdir = P_d
    /\ last.path = R_e
    /\ K_def \in pre.bucket
    /\ last.res.entries = <<>>

\* stat("e") in /d found d/e/: the other operations resolve.
S3StatRelative ==
    /\ kind = "S3"
    /\ last.op = "stat"
    /\ is_ok(last.res)
    /\ pre.wrkdir = P_d
    /\ last.path = R_e
    /\ TargetKey = <<"d", "/", "e", "/">>
    /\ last.res.entries[1].is_dir

\* ---------------------------------------------------------------------------
\* C37  change_dir, stat and exists agree on directories
\* ---------------------------------------------------------------------------

DirEntered == last.op = "change_dir" /\ is_ok(last.res)

\* stat and exists of the directory just entered, called in the state that
\* change_dir has left, no call to the backend failing.
StatOfEntered == stat(Ctx(0), TargetAbs).r
ExistsOfEntered == exists(Ctx(0), TargetAbs).r

StatGivesDirectory(r) == is_ok(r) /\ r.entries[1].is_dir
ExistsGivesTrue(r) == is_ok(r) /\ r.flag

\* C37: on every connected driver, whenever change_dir(d) returns Ok,
\* stat(d) succeeds with a directory entry and exists(d) returns Ok(true),
\* also for d = `/`.
C37_EnteredDirectoryStatsAsDirectory ==
    DirEntered =>
        /\ With(StatOfEntered, StatGivesDirectory)
        /\ With(ExistsOfEntered, ExistsGivesTrue)

\* On S3 an object has the name of the directory without the closing `/`.
S3FileOfSameName == kind = "S3" /\ TargetObjectKey \in bucket

\* The directory entered is a symbolic link to a directory.
EnteredThroughLink(k) == kind = k /\ node_type(tree, TargetAbs, FALSE) = "link"

\* What the code does: the two agree with change_dir below the root, except
\* on S3 for a directory that shares its name with a file object and on SCP
\* for a link to a directory, whose entry is the link.
EnteredDirectoryStatsAsDirectoryBelowRoot ==
    (DirEntered /\ TargetAbs # ROOT /\ ~S3FileOfSameName
     /\ ~EnteredThroughLink("SCP")) =>
        /\ With(StatOfEntered, StatGivesDirectory)
        /\ With(ExistsOfEntered, ExistsGivesTrue)

\* change_dir("/") returned Ok on S3 and stat("/") fails.
S3RootEnteredButNoStat ==
    /\ DirEntered
    /\ kind = "S3"
    /\ TargetAbs = ROOT
    /\ With(StatOfEntered, is_err)

\* change_dir("/d") returned Ok and stat("/d") gives a directory.
EnteredDirectoryStatted ==
    /\ DirEntered
    /\ TargetAbs = P_d
    /\ With(StatOfEntered, StatGivesDirectory)
    /\ With(ExistsOfEntered, ExistsGivesTrue)

\* ---------------------------------------------------------------------------
\* C38  AwsS3Fs: directories without a marker object
\* ---------------------------------------------------------------------------

\* The directories above an object: for every `/` inside the key, the path
\* of what precedes it.
DirsAbove(key) ==
    {ROOT \o SubSeq(key, 1, i - 1) :
         i \in {j \in 2..(Len(key) - 1) : key[j] = SLASH}}

\* The marker object of directory dir: its key with the closing `/`.
MarkerOf(dir) == fmt_path(dir, TRUE)

\* Directory dir is seen by list_dir of its parent, by stat and by
\* change_dir, called in this state with no call to the backend failing.
ListsAsDirectory(r, dir) ==
    /\ is_ok(r)
    /\ \E i \in 1..Len(r.entries) :
           r.entries[i].is_dir /\ PathEq(r.entries[i].path, dir)

Visible(dir) ==
    /\ With(list_dir(Ctx(0), parent(dir).v).r, LAMBDA r : ListsAsDirectory(r, dir))
    /\ With(stat(Ctx(0), dir).r, is_ok)
    /\ With(change_dir(Ctx(0), dir).r, is_ok)

\* C38: on S3, whenever an object with key D/x exists, directory D is
\* visible (list_dir of its parent has a directory entry for D, stat(D) and
\* change_dir(D) succeed), also when the bucket holds no marker object D/.
C38_S3DirectoryOfEveryObjectIsVisible ==
    (kind = "S3" /\ session) =>
        \A key \in bucket : \A dir \in DirsAbove(key) : Visible(dir)

\* What the code does: a directory is visible when its marker object is in
\* the bucket.
S3DirectoryWithMarkerIsVisible ==
    (kind = "S3" /\ session) =>
        \A key \in bucket : \A dir \in DirsAbove(key) :
            MarkerOf(dir) \in bucket => Visible(dir)

\* d/f is in the bucket, d/ is not, and /d is not to be seen.
S3DirectoryWithoutMarkerIsHidden ==
    /\ kind = "S3"
    /\ session
    /\ K_df \in bucket
    /\ MarkerOf(P_d) \notin bucket
    /\ ~With(stat(Ctx(0), P_d).r, is_ok)
    /\ ~With(change_dir(Ctx(0), P_d).r, is_ok)
    /\ With(list_dir(Ctx(0), ROOT).r, LAMBDA r : is_ok(r) /\ r.entries = <<>>)

\* ---------------------------------------------------------------------------
\* C39  termination of the default remove_dir_all and find
\* ---------------------------------------------------------------------------

Recursed == last.op \in {"remove_dir_all", "find"}

\* The recursion went deeper than MaxSearch levels, more than any path of
\* the remote tree or any key of the bucket has segments.
WentBelowTheTree == last.res.kind = "StackOverflow"

\* A link of the tree that points to a directory above it.
AncestorLinks(t) ==
    {k \in DOMAIN t : t[k].type = "link" /\ starts_with(k, t[k].target)}

\* C39: the default remove_dir_all and the default find terminate on every
\* finite remote tree, links to an ancestor directory notwithstanding: the
\* depth of the recursion is bounded by the depth of the tree.
C39_RecursionBoundedByTreeDepth ==
    Recursed => ~WentBelowTheTree

\* What the code does: the recursion is bounded unless remove_dir_all meets
\* a link to an ancestor on a driver whose stat follows links, or find
\* meets the S3 object `/`.
RecursionBoundedWithoutAncestorLinks ==
    (Recursed /\ WentBelowTheTree) =>
        \/ /\ last.op = "remove_dir_all"
           /\ kind \in {"FTP", "SFTP"}
           /\ AncestorLinks(pre.tree) # {}
        \/ /\ last.op = "find"
           /\ kind = "S3"
           /\ K_slash \in pre.bucket

\* remove_dir_all on SFTP with the link /d/e/a -> /d went on below the link,
\* through /d/e/a/e/a and further, until the model stopped it.
RemoveDirAllFollowedAncestorLink ==
    /\ last.op = "remove_dir_all"
    /\ kind = "SFTP"
    /\ P_dea \in AncestorLinks(pre.tree)
    /\ pre.tree[P_dea].target = P_d
    /\ WentBelowTheTree

\* remove_dir_all of a tree of three levels without such a link returned.
RemoveDirAllReturned ==
    /\ last.op = "remove_dir_all"
    /\ kind = "SFTP"
    /\ last.path = P_d
    /\ AncestorLinks(pre.tree) = {}
    /\ is_ok(last.res)
    /\ P_d \notin DOMAIN tree

\* ---------------------------------------------------------------------------
\* C40  ScpFs::setstat: the group
\* ---------------------------------------------------------------------------

\* A setstat on SCP of an existing path that ran to its end.
ScpSetStatDone == ScpSetStat /\ TargetExists /\ is_ok(last.res)

\* The chown command was issued with the group.
GroupChanged ==
    /\ "chown" \in {Issued[i] : i \in 1..Len(Issued)}
    /\ last.arg.owner.some
    /\ last.arg.owner.v = "user:group"

\* C40: setstat on SCP applies every ownership field of the metadata: when
\* gid is set the group of the remote entry is changed to it, also when uid
\* is not set.
C40_ScpSetStatAppliesGroup ==
    (ScpSetStatDone /\ last.arg.gid) => GroupChanged

\* What the code does: the group is changed when uid and gid are both set.
ScpSetStatAppliesGroupWithUser ==
    ScpSetStatDone => (GroupChanged <=> (last.arg.uid /\ last.arg.gid))

\* setstat with a gid and no uid returned Ok without a chown.
ScpSetStatDroppedGroup ==
    /\ ScpSetStatDone
    /\ last.arg.gid
    /\ ~last.arg.uid
    /\ ~last.arg.mode
    /\ Issued = <<"touch -a", "touch -m">>

\* setstat with uid and gid ran `chown user:group`.
ScpSetStatChangedGroup ==
    /\ ScpSetStatDone
    /\ GroupChanged

====
